---- MODULE Spec2Model ----
(***************************************************************************)
(* The time-bounded cache of openbymadata (internal/cache/cache.go), the   *)
(* cache-aware client accessors built on it (client.go) and the symbol     *)
(* lookups of internal/helpers/securities.go.                              *)
(*                                                                         *)
(* Goroutines are the callers of the library.  Every cache method is two   *)
(* steps: acquire the RWMutex, then act on the table and release it (the   *)
(* deferred unlock); Cache.Clear acts one assignment at a time.  An        *)
(* accessor is: cache get, invoke the fetcher, the fetcher returns, cache  *)
(* set.                                                                    *)
(* Time is the wall clock read by time.Now and time.Since.                  *)
(***************************************************************************)
EXTENDS Integers, Sequences, FiniteSets, TLC

\* ------------------------------------------------------------------ bounds
\* Number of API calls the callers start in one behaviour.
MaxCalls == 3
\* Number of distinct payloads a caller of Cache.Set* may store.
NumData == 1

\* ------------------------------------------------------- program constants
\* cache.New: duration = 5 * time.Minute; the unit of time is one minute.
Duration == 5

\* The instants at which the clock is observed: the start, the last minute
\* inside the window of a slot captured at the start, and the exact end of
\* that window.
Times == <<0, Duration - 1, Duration>>

\* The goroutines sharing one client / one cache.
Procs == {1, 2}

\* The collection fields of the Cache struct, in declaration order.
CatNames ==
  <<"bluechips", "cedears", "galpones", "bonds", "shortBonds",
    "corporateBonds", "options", "futures", "indices", "marketSummary",
    "news">>

Cats == {CatNames[i] : i \in 1..Len(CatNames)}

\* Ticker symbols used as keys of the incomeStatements map.
Tickers == {"GGAL", "YPFD"}

Keys == Cats \cup Tickers

\* The categories read by the composite lookups, in the order of the calls.
SecurityCats == <<"bluechips", "cedears", "galpones">>

\* A nil *cachedX pointer / a missing map entry.
NilSlot == [present |-> FALSE, data |-> <<>>, timestamp |-> 0]

\* &cachedX{data: data, timestamp: time.Now()}
NewSlot(d, t) == [present |-> TRUE, data |-> d, timestamp |-> t]

\* The errors a collection fetcher can return: a transport failure or an
\* unparsable payload.
Errs == {"request failed", "invalid response"}

\* Symbols served by the exchange for each collection; "DUP" is listed in
\* two collections.
Fixture(k) ==
  CASE k = "bluechips" -> <<"GGAL", "DUP">>
    [] k = "cedears" -> <<"AAPL", "DUP">>
    [] k = "galpones" -> <<"AGRO">>
    [] k = "bonds" -> <<"AL30">>
    [] k = "shortBonds" -> <<"S31O5", "AL30">>
    [] k = "corporateBonds" -> <<"YPCUO">>
    [] OTHER -> <<k>>

\* The payload the n-th invocation of the fetcher of k parses: one record
\* per symbol, whose Last is n, so that every fetch is told apart.
Items(k, n) ==
  [i \in 1..Len(Fixture(k)) |-> [Symbol |-> Fixture(k)[i], Last |-> n]]

\* The payloads a direct caller of Cache.Set* stores (a nil slice included).
RawData == {<<>>} \cup {<<[Symbol |-> "S", Last |-> n]>> : n \in 1..NumData}

VARIABLES
  now,        \* index into Times of the current wall-clock time
  opts,       \* the *ClientOptions given to NewClient
  cacheOn,    \* client.cache != nil
  slot,       \* Cache: the eleven *cachedX fields
  incomeStatements, \* Cache.incomeStatements
  readers,    \* goroutines holding Cache.mu for reading
  writer,     \* goroutine holding Cache.mu for writing, 0 if none
  pc,         \* position of each goroutine
  fr,         \* locals and results of the call of each goroutine
  fetchCount, \* call counter of each fetcher
  calls,      \* calls started so far
  setCount,   \* number of Cache.SetX calls executed, per key
  serialAtClear, \* fetchCount when the last Cache.Clear returned
  abs,        \* the contract's view of the table: last set since last clear
  sentinels   \* the package-level Err* variables of types.go

vars ==
  <<now, opts, cacheOn, slot, incomeStatements, readers, writer, pc, fr,
    fetchCount, calls, setCount, serialAtClear, abs, sentinels>>

Clock == Times[now]

\* ------------------------------------------------------------- types.go
\* types.go DefaultClientOptions
DefaultClientOptions == [EnableCache |-> TRUE]

\* NewClient: the given options override BaseURL, Timeout, RetryAttempts
\* and Logger; options.EnableCache keeps its default.
NewClient(o) ==
  LET options == DefaultClientOptions
  IN options.EnableCache

\* A nil error.
NilError == [dyn |-> "nil"]

\* &BYMAError{Code, Message, StatusCode, Underlying}: an error value whose
\* dynamic type is *BYMAError.  A text is the sequence of its parts.
BYMAError(code, message, statusCode, underlying) ==
  [dyn |-> "*BYMAError", Code |-> code, Message |-> message,
   StatusCode |-> statusCode, Underlying |-> underlying]

\* fmt.Sprintf(format, a): the format and its argument.
Sprintf(format, a) == <<format, a>>

\* errors.New(text): an *errors.errorString.
ErrorString(text) == [dyn |-> "*errors.errorString", text |-> text]

\* fmt.Errorf(format, a) without %w: errors.New(fmt.Sprintf(format, a)).
Errorf(format, a) == ErrorString(Sprintf(format, a))

\* fmt.Errorf(text + ": %w", err): a *fmt.wrapError around err.
WrapError(text, err) == [dyn |-> "*fmt.wrapError", text |-> text, err |-> err]

\* var ( ErrInvalidResponse = &BYMAError{...} ... ): the values the
\* package-level variables point to when the package is initialised.
Sentinels ==
  [ErrInvalidResponse |->
     BYMAError("INVALID_RESPONSE", <<"Invalid API response">>, 0, NilError),
   ErrAPIUnavailable |->
     BYMAError("API_UNAVAILABLE", <<"BYMA API is unavailable">>, 0, NilError),
   ErrInvalidTicker |->
     BYMAError("INVALID_TICKER", <<"Invalid ticker symbol">>, 0, NilError),
   ErrTimeout |->
     BYMAError("TIMEOUT", <<"Request timeout">>, 0, NilError),
   ErrUnauthorized |->
     BYMAError("UNAUTHORIZED", <<"Unauthorized access">>, 0, NilError),
   ErrRateLimited |->
     BYMAError("RATE_LIMITED", <<"Rate limit exceeded">>, 0, NilError),
   ErrInternalError |->
     BYMAError("INTERNAL_ERROR", <<"Internal server error">>, 0, NilError)]

\* (e *BYMAError) WithUnderlying(err): a new struct, e is not written
WithUnderlying(e, err) ==
  BYMAError(e.Code, e.Message, e.StatusCode, err)

\* (e *BYMAError) WithStatusCode(code): a new struct, e is not written
WithStatusCode(e, code) ==
  BYMAError(e.Code, e.Message, code, e.Underlying)

\* NewBYMAError(code, message)
NewBYMAError(code, message) == BYMAError(code, message, 0, NilError)

\* MapHTTPError in which only 500 stands for an unavailable API.
MapHTTPError_Only500(statusCode) ==
  CASE statusCode = 401 ->
         WithStatusCode(sentinels.ErrUnauthorized, statusCode)
    [] statusCode = 429 ->
         WithStatusCode(sentinels.ErrRateLimited, statusCode)
    [] statusCode = 500 ->
         WithStatusCode(sentinels.ErrAPIUnavailable, statusCode)
    [] statusCode = 408 ->
         WithStatusCode(sentinels.ErrTimeout, statusCode)
    [] OTHER ->
         WithStatusCode(
           NewBYMAError("HTTP_ERROR", Sprintf("HTTP error %d", statusCode)),
           statusCode)

\* MapHTTPError: switch statusCode over http.StatusUnauthorized (401),
\* StatusTooManyRequests (429), StatusInternalServerError (500),
\* StatusBadGateway (502), StatusServiceUnavailable (503),
\* StatusRequestTimeout (408) and default
MapHTTPError(statusCode) ==
  CASE statusCode = 401 ->
         WithStatusCode(sentinels.ErrUnauthorized, statusCode)
    [] statusCode = 429 ->
         WithStatusCode(sentinels.ErrRateLimited, statusCode)
    [] statusCode \in {500, 502, 503} ->
         WithStatusCode(sentinels.ErrAPIUnavailable, statusCode)
    [] statusCode = 408 ->
         WithStatusCode(sentinels.ErrTimeout, statusCode)
    [] OTHER ->
         WithStatusCode(
           NewBYMAError("HTTP_ERROR", Sprintf("HTTP error %d", statusCode)),
           statusCode)

\* IsRetryable that looks for a *BYMAError along the chain of wrapped
\* errors, as errors.As does.
RECURSIVE IsRetryable_Unwrapping(_)
IsRetryable_Unwrapping(err) ==
  IF err.dyn = "*BYMAError"
  THEN CASE err.Code \in {"TIMEOUT", "API_UNAVAILABLE", "RATE_LIMITED"} -> TRUE
         [] err.Code = "HTTP_ERROR" -> err.StatusCode >= 500
         [] OTHER -> FALSE
  ELSE IF err.dyn = "*fmt.wrapError"
  THEN IsRetryable_Unwrapping(err.err)
  ELSE FALSE

\* IsRetryable: the type assertion err.(*BYMAError) and the switch on Code
IsRetryable(err) ==
  IF err.dyn = "*BYMAError"
  THEN CASE err.Code \in {"TIMEOUT", "API_UNAVAILABLE", "RATE_LIMITED"} -> TRUE
         [] err.Code = "HTTP_ERROR" -> err.StatusCode >= 500
         [] OTHER -> FALSE
  ELSE FALSE

\* The options a program can pass: none, or a struct with EnableCache set.
OptionInputs ==
  {[given |-> FALSE, EnableCache |-> FALSE],
   [given |-> TRUE, EnableCache |-> TRUE],
   [given |-> TRUE, EnableCache |-> FALSE]}

\* ------------------------------------------------------------- frames
NilPtr == [coll |-> "nil", idx |-> 0]

\* A nil map[string]*Security.
NilMap == [isNil |-> TRUE, m |-> [x \in {} |-> NilPtr]]

EmptyInfo == [c \in {} |-> NilSlot]

Frame0 ==
  [op |-> "none", layer |-> "none", key |-> "none", queue |-> <<>>,
   colls |-> <<>>, sym |-> "none", symbols |-> <<>>, text |-> <<>>,
   data |-> <<>>, found |-> FALSE,
   err |-> "nil", ptr |-> NilPtr, results |-> NilMap, info |-> EmptyInfo,
   at |-> 0,
   seen |-> NilSlot, want |-> NilSlot, fetched |-> FALSE, fid |-> 0,
   hot |-> FALSE, ferr |-> "nil", prevErr |-> "nil", floor |-> 0, i |-> 0,
   cancelledAt |-> "never", statusCode |-> 0, arg |-> NilError,
   ret |-> NilError, retryable |-> FALSE, responses |-> <<>>,
   errv |-> NilError]

CanCall(g) == pc[g] \in {"idle", "done"} /\ calls < MaxCalls

\* ------------------------------------------------------------- cache.go
\* Cache.isFresh with the end of the window counted as fresh.
isFresh_Inclusive(timestamp) == Clock - timestamp <= Duration

\* Cache.isFresh that never finds a slot fresh.
isFresh_Never(timestamp) == FALSE

\* Cache.isFresh
isFresh(timestamp) == Clock - timestamp < Duration

\* c.bluechips, ..., c.news, c.incomeStatements[ticker]
Lookup(k) ==
  IF k \in Cats THEN slot[k]
  ELSE IF k \in DOMAIN incomeStatements THEN incomeStatements[k]
  ELSE NilSlot

\* What Cache.GetX / Cache.GetIncomeStatement returns at this instant.
GetResult(k) ==
  IF Lookup(k).present /\ isFresh(Lookup(k).timestamp)
  THEN [data |-> Lookup(k).data, found |-> TRUE]
  ELSE [data |-> <<>>, found |-> FALSE]

\* ------------------------------------------------- helpers/securities.go
\* for i := range securities { if securities[i].Symbol == symbol {...} }:
\* the index of the first match from i on, 0 if the loop ends without one
RECURSIVE ScanSymbol(_, _, _)
ScanSymbol(symbol, securities, i) ==
  IF i > Len(securities) THEN 0
  ELSE IF securities[i].Symbol = symbol THEN i
  ELSE ScanSymbol(symbol, securities, i + 1)

\* helpers.FindSecurityBySymbol searching the CEDEARs before the blue chips.
FindSecurityBySymbol_CedearsFirst(symbol, bluechips, cedears, galpones) ==
  IF ScanSymbol(symbol, cedears, 1) # 0
  THEN [ptr |-> [coll |-> "cedears",
                 idx |-> ScanSymbol(symbol, cedears, 1)],
        err |-> "nil"]
  ELSE IF ScanSymbol(symbol, bluechips, 1) # 0
  THEN [ptr |-> [coll |-> "bluechips",
                 idx |-> ScanSymbol(symbol, bluechips, 1)],
        err |-> "nil"]
  ELSE IF ScanSymbol(symbol, galpones, 1) # 0
  THEN [ptr |-> [coll |-> "galpones",
                 idx |-> ScanSymbol(symbol, galpones, 1)],
        err |-> "nil"]
  ELSE [ptr |-> NilPtr, err |-> "security not found"]

\* helpers.FindSecurityBySymbol: &bluechips[i], &cedears[i] or &galpones[i]
\* of the first match, or the error fmt.Errorf("security %s not found")
FindSecurityBySymbol(symbol, bluechips, cedears, galpones) ==
  IF ScanSymbol(symbol, bluechips, 1) # 0
  THEN [ptr |-> [coll |-> "bluechips",
                 idx |-> ScanSymbol(symbol, bluechips, 1)],
        err |-> "nil"]
  ELSE IF ScanSymbol(symbol, cedears, 1) # 0
  THEN [ptr |-> [coll |-> "cedears",
                 idx |-> ScanSymbol(symbol, cedears, 1)],
        err |-> "nil"]
  ELSE IF ScanSymbol(symbol, galpones, 1) # 0
  THEN [ptr |-> [coll |-> "galpones",
                 idx |-> ScanSymbol(symbol, galpones, 1)],
        err |-> "nil"]
  ELSE [ptr |-> NilPtr, err |-> "security not found"]

\* helpers.FindSecurityInCollection answering a missing symbol with the
\* zero record and no error.
FindSecurityInCollection_NoError(symbol, securities) ==
  [idx |-> ScanSymbol(symbol, securities, 1), err |-> "nil"]

\* helpers.FindSecurityInCollection: the index of the first match in the one
\* collection (the caller holds &securities[i]), or the error
\* fmt.Errorf("security %s not found")
FindSecurityInCollection(symbol, securities) ==
  IF ScanSymbol(symbol, securities, 1) # 0
  THEN [idx |-> ScanSymbol(symbol, securities, 1), err |-> "nil"]
  ELSE [idx |-> 0, err |-> "security not found"]

\* helpers.FindOptionBySymbol
FindOptionBySymbol(symbol, options) ==
  IF ScanSymbol(symbol, options, 1) # 0
  THEN [idx |-> ScanSymbol(symbol, options, 1), err |-> "nil"]
  ELSE [idx |-> 0, err |-> "option not found"]

\* helpers.FindFutureBySymbol
FindFutureBySymbol(symbol, futures) ==
  IF ScanSymbol(symbol, futures, 1) # 0
  THEN [idx |-> ScanSymbol(symbol, futures, 1), err |-> "nil"]
  ELSE [idx |-> 0, err |-> "future not found"]

\* helpers.FindBondBySymbol searching the short-term bonds before the bonds.
FindBondBySymbol_ShortFirst(symbol, bonds, shortBonds, corporateBonds) ==
  IF ScanSymbol(symbol, shortBonds, 1) # 0
  THEN [ptr |-> [coll |-> "shortBonds",
                 idx |-> ScanSymbol(symbol, shortBonds, 1)],
        err |-> "nil"]
  ELSE IF ScanSymbol(symbol, bonds, 1) # 0
  THEN [ptr |-> [coll |-> "bonds", idx |-> ScanSymbol(symbol, bonds, 1)],
        err |-> "nil"]
  ELSE IF ScanSymbol(symbol, corporateBonds, 1) # 0
  THEN [ptr |-> [coll |-> "corporateBonds",
                 idx |-> ScanSymbol(symbol, corporateBonds, 1)],
        err |-> "nil"]
  ELSE [ptr |-> NilPtr, err |-> "bond not found"]

\* helpers.FindBondBySymbol: &bonds[i], &shortBonds[i] or
\* &corporateBonds[i] of the first match, or fmt.Errorf("bond %s not found")
FindBondBySymbol(symbol, bonds, shortBonds, corporateBonds) ==
  IF ScanSymbol(symbol, bonds, 1) # 0
  THEN [ptr |-> [coll |-> "bonds", idx |-> ScanSymbol(symbol, bonds, 1)],
        err |-> "nil"]
  ELSE IF ScanSymbol(symbol, shortBonds, 1) # 0
  THEN [ptr |-> [coll |-> "shortBonds",
                 idx |-> ScanSymbol(symbol, shortBonds, 1)],
        err |-> "nil"]
  ELSE IF ScanSymbol(symbol, corporateBonds, 1) # 0
  THEN [ptr |-> [coll |-> "corporateBonds",
                 idx |-> ScanSymbol(symbol, corporateBonds, 1)],
        err |-> "nil"]
  ELSE [ptr |-> NilPtr, err |-> "bond not found"]

\* m[k] = v on a Go map
Put(m, k, v) == [x \in DOMAIN m \cup {k} |-> IF x = k THEN v ELSE m[x]]

\* for i := range securities { xMap[securities[i].Symbol] = &securities[i] }:
\* the map after the first n records of the collection called name
RECURSIVE BuildMap(_, _, _)
BuildMap(securities, name, n) ==
  IF n = 0 THEN [x \in {} |-> NilPtr]
  ELSE Put(BuildMap(securities, name, n - 1), securities[n].Symbol,
           [coll |-> name, idx |-> n])

\* The probing loop of helpers.GetMultipleSecurities entering a nil pointer
\* for a symbol that no map holds.
RECURSIVE ProbeSymbols_NilForMissing(_, _, _, _, _)
ProbeSymbols_NilForMissing(symbols, bluechipMap, cedearMap, galponeMap, n) ==
  IF n = 0 THEN [x \in {} |-> NilPtr]
  ELSE LET results == ProbeSymbols_NilForMissing(symbols, bluechipMap,
                                                cedearMap, galponeMap, n - 1)
           symbol == symbols[n]
       IN IF symbol \in DOMAIN bluechipMap
          THEN Put(results, symbol, bluechipMap[symbol])
          ELSE IF symbol \in DOMAIN cedearMap
          THEN Put(results, symbol, cedearMap[symbol])
          ELSE IF symbol \in DOMAIN galponeMap
          THEN Put(results, symbol, galponeMap[symbol])
          ELSE Put(results, symbol, NilPtr)

\* for _, symbol := range symbols { if ... else if ... else if ... }: the
\* results after the first n requested symbols
RECURSIVE ProbeSymbols(_, _, _, _, _)
ProbeSymbols(symbols, bluechipMap, cedearMap, galponeMap, n) ==
  IF n = 0 THEN [x \in {} |-> NilPtr]
  ELSE LET results == ProbeSymbols(symbols, bluechipMap, cedearMap,
                                  galponeMap, n - 1)
           symbol == symbols[n]
       IN IF symbol \in DOMAIN bluechipMap
          THEN Put(results, symbol, bluechipMap[symbol])
          ELSE IF symbol \in DOMAIN cedearMap
          THEN Put(results, symbol, cedearMap[symbol])
          ELSE IF symbol \in DOMAIN galponeMap
          THEN Put(results, symbol, galponeMap[symbol])
          ELSE results

\* helpers.GetMultipleSecurities
helpers_GetMultipleSecurities(symbols, bluechips, cedears, galpones) ==
  ProbeSymbols(symbols,
               BuildMap(bluechips, "bluechips", Len(bluechips)),
               BuildMap(cedears, "cedears", Len(cedears)),
               BuildMap(galpones, "galpones", Len(galpones)),
               Len(symbols))

\* The bytes of the symbols used as Go strings (s[i], len(s)).
Bytes(s) ==
  CASE s = "" -> <<>>
    [] s = "AAP" -> <<65, 65, 80>>
    [] s = "AAPL" -> <<65, 65, 80, 76>>
    [] s = "aPl" -> <<97, 80, 108>>
    [] s = "GGAL" -> <<71, 71, 65, 76>>
    [] s = "DUP" -> <<68, 85, 80>>
    [] s = "AGRO" -> <<65, 71, 82, 79>>

\* helpers.toLower: 'A'..'Z' moved by 'a' - 'A', every other byte kept
toLower(s) ==
  [i \in 1..Len(s) |-> IF s[i] >= 65 /\ s[i] <= 90 THEN s[i] + 32 ELSE s[i]]

\* helpers.simpleContains comparing the first byte of substr only.
simpleContains_FirstByte(s, substr) ==
  IF Len(substr) = 0 THEN TRUE
  ELSE IF Len(substr) > Len(s) THEN FALSE
  ELSE \E i \in 0..(Len(s) - Len(substr)) : s[i + 1] = substr[1]

\* helpers.simpleContains: some offset i at which every byte of substr
\* equals the byte of s
simpleContains(s, substr) ==
  IF Len(substr) = 0 THEN TRUE
  ELSE IF Len(substr) > Len(s) THEN FALSE
  ELSE \E i \in 0..(Len(s) - Len(substr)) :
         \A j \in 0..(Len(substr) - 1) : s[i + j + 1] = substr[j + 1]

\* helpers.stringContains without the lower-casing.
stringContains_CaseSensitive(s, substr) == simpleContains(s, substr)

\* helpers.stringContains
stringContains(s, substr) == simpleContains(toLower(s), toLower(substr))

\* helpers.contains with len(s) > len(substr) for len(s) >= len(substr).
contains_StrictlyLonger(s, substr) ==
  /\ Len(s) > Len(substr)
  /\ (s = substr \/ Len(substr) = 0 \/ stringContains(s, substr))

\* helpers.contains
contains(s, substr) ==
  /\ Len(s) >= Len(substr)
  /\ (s = substr \/ Len(substr) = 0 \/ stringContains(s, substr))

\* for _, security := range xs { if contains(security.Symbol, searchText)
\* { results = append(results, security) } }: the records appended from the
\* i-th on
RECURSIVE Matching(_, _, _)
Matching(searchText, securities, i) ==
  IF i > Len(securities) THEN <<>>
  ELSE (IF contains(Bytes(securities[i].Symbol), searchText)
        THEN <<securities[i]>> ELSE <<>>)
       \o Matching(searchText, securities, i + 1)

\* helpers.SearchSecurities
helpers_SearchSecurities(searchText, bluechips, cedears, galpones) ==
  Matching(searchText, bluechips, 1) \o Matching(searchText, cedears, 1)
    \o Matching(searchText, galpones, 1)

\* The error value a lookup helper returns: nil, or
\* fmt.Errorf("security %s not found", symbol) and its siblings for bonds,
\* options and futures.
HelperError(err, symbol) ==
  IF err = "nil" THEN NilError ELSE Errorf(err, symbol)

\* ------------------------------------------------------------- client.go
\* The return statement of a client method once its collections are fetched:
\* the collection itself, or the helper applied to the three collections.
Finish(f, colls) ==
  IF f.op = "GetSecurity"
  THEN LET r == FindSecurityBySymbol(f.sym, colls[1], colls[2], colls[3])
       IN [f EXCEPT !.queue = <<>>, !.colls = colls, !.data = <<>>,
                    !.ptr = r.ptr, !.err = r.err,
                    !.errv = HelperError(r.err, f.sym)]
  ELSE IF f.op = "GetBond"
  THEN LET r == FindBondBySymbol(f.sym, colls[1], colls[2], colls[3])
       IN [f EXCEPT !.queue = <<>>, !.colls = colls, !.data = <<>>,
                    !.ptr = r.ptr, !.err = r.err,
                    !.errv = HelperError(r.err, f.sym)]
  ELSE IF f.op \in {"GetBluechip", "GetCedear", "GetGalpone", "GetOption",
                    "GetFuture"}
  THEN LET r == IF f.op = "GetOption"
                THEN FindOptionBySymbol(f.sym, colls[1])
                ELSE IF f.op = "GetFuture"
                THEN FindFutureBySymbol(f.sym, colls[1])
                ELSE FindSecurityInCollection(f.sym, colls[1])
       IN [f EXCEPT !.queue = <<>>, !.colls = colls, !.data = <<>>,
                    !.ptr = IF r.err = "nil"
                            THEN [coll |-> f.key, idx |-> r.idx]
                            ELSE NilPtr,
                    !.err = r.err,
                    !.errv = HelperError(r.err, f.sym)]
  ELSE IF f.op = "GetMultipleSecurities"
  THEN [f EXCEPT !.queue = <<>>, !.colls = colls, !.data = <<>>,
                 !.results =
                   [isNil |-> FALSE,
                    m |-> helpers_GetMultipleSecurities(
                            f.symbols, colls[1], colls[2], colls[3])]]
  ELSE IF f.op = "SearchSecurities"
  THEN [f EXCEPT !.queue = <<>>, !.colls = colls,
                 !.data = helpers_SearchSecurities(f.text, colls[1],
                                                   colls[2], colls[3])]
  ELSE [f EXCEPT !.queue = <<>>, !.colls = <<>>, !.data = colls[1]]

\* An accessor that goes to the fetcher without asking the cache.
AccessorEntry_NoCache == "fetch"

\* if c.cache != nil { c.cache.GetX() } else fetch at once
AccessorEntry == IF cacheOn THEN "get_rlock" ELSE "fetch"

\* An accessor that tests ctx.Err() before it returns a collection.
Obtained_CtxChecked(f, d) ==
  IF f.cancelledAt # "never"
  THEN <<"done", [f EXCEPT !.data = <<>>, !.err = "context canceled"]>>
  ELSE LET colls == Append(f.colls, d)
           rest == Tail(f.queue)
       IN IF rest = <<>>
          THEN <<"done", Finish(f, colls)>>
          ELSE <<AccessorEntry,
                 [f EXCEPT !.colls = colls, !.queue = rest, !.key = rest[1],
                           !.data = <<>>, !.found = FALSE, !.seen = NilSlot,
                           !.fetched = FALSE, !.fid = 0, !.hot = FALSE]>>

\* Where a goroutine continues when an accessor obtained collection d for
\* the head of its queue: the next accessor call of the method, or its
\* return.
Obtained(f, d) ==
  LET colls == Append(f.colls, d)
      rest == Tail(f.queue)
  IN IF rest = <<>>
     THEN <<"done", Finish(f, colls)>>
     ELSE <<AccessorEntry,
            [f EXCEPT !.colls = colls, !.queue = rest, !.key = rest[1],
                      !.data = <<>>, !.found = FALSE, !.seen = NilSlot,
                      !.fetched = FALSE, !.fid = 0, !.hot = FALSE]>>

\* ------------------------------------------------------------- cache.go
\* c.mu.RLock() of Cache.GetX
GetRLock(g) ==
  /\ pc[g] = "get_rlock"
  /\ writer = 0
  /\ readers' = readers \cup {g}
  /\ pc' = [pc EXCEPT ![g] = "get_read"]
  /\ UNCHANGED <<now, opts, cacheOn, slot, incomeStatements, writer, fr,
                 fetchCount, calls, setCount, serialAtClear, abs, sentinels>>

\* An accessor that takes the read lock itself and, on a miss, keeps it
\* while it fetches and stores.
GetRead_HoldOnMiss(g) ==
  /\ pc[g] = "get_read"
  /\ LET f == [fr[g] EXCEPT !.data = GetResult(fr[g].key).data,
                            !.found = GetResult(fr[g].key).found,
                            !.at = Clock,
                            !.seen = Lookup(fr[g].key),
                            !.want = abs[fr[g].key]]
     IN IF f.layer = "cache"
        THEN /\ pc' = [pc EXCEPT ![g] = "done"]
             /\ fr' = [fr EXCEPT ![g] = f]
             /\ readers' = readers \ {g}
        ELSE IF f.found
        THEN /\ pc' = [pc EXCEPT ![g] = Obtained(f, f.data)[1]]
             /\ fr' = [fr EXCEPT ![g] = Obtained(f, f.data)[2]]
             /\ readers' = readers \ {g}
        ELSE /\ pc' = [pc EXCEPT ![g] = "fetch"]
             /\ fr' = [fr EXCEPT ![g] = f]
             /\ readers' = readers
  /\ UNCHANGED <<now, opts, cacheOn, slot, incomeStatements, writer,
                 fetchCount, calls, setCount, serialAtClear, abs, sentinels>>

\* the body of Cache.GetX (the freshness test and the returned pair), the
\* deferred c.mu.RUnlock() and the return to the caller: an accessor
\* returns the cached slice on found and goes on to fetch otherwise
GetRead(g) ==
  /\ pc[g] = "get_read"
  /\ readers' = readers \ {g}
  /\ LET f == [fr[g] EXCEPT !.data = GetResult(fr[g].key).data,
                            !.found = GetResult(fr[g].key).found,
                            !.at = Clock,
                            !.seen = Lookup(fr[g].key),
                            !.want = abs[fr[g].key]]
     IN IF f.layer = "cache"
        THEN /\ pc' = [pc EXCEPT ![g] = "done"]
             /\ fr' = [fr EXCEPT ![g] = f]
        ELSE IF f.found
        THEN /\ pc' = [pc EXCEPT ![g] = Obtained(f, f.data)[1]]
             /\ fr' = [fr EXCEPT ![g] = Obtained(f, f.data)[2]]
        ELSE /\ pc' = [pc EXCEPT ![g] = "fetch"]
             /\ fr' = [fr EXCEPT ![g] = f]
  /\ UNCHANGED <<now, opts, cacheOn, slot, incomeStatements, writer,
                 fetchCount, calls, setCount, serialAtClear, abs, sentinels>>

\* c.mu.Lock() of Cache.SetX
SetLock(g) ==
  /\ pc[g] = "set_lock"
  /\ writer = 0
  /\ readers = {}
  /\ writer' = g
  /\ pc' = [pc EXCEPT ![g] = "set_write"]
  /\ UNCHANGED <<now, opts, cacheOn, slot, incomeStatements, readers, fr,
                 fetchCount, calls, setCount, serialAtClear, abs, sentinels>>

\* Cache.SetIncomeStatement keeping one slot for the statements of all
\* tickers.
Store_OneTicker(k, d) ==
  IF k \in Cats
  THEN /\ slot' = [slot EXCEPT ![k] = NewSlot(d, Clock)]
       /\ incomeStatements' = incomeStatements
  ELSE /\ incomeStatements' = [t \in Tickers |-> NewSlot(d, Clock)]
       /\ slot' = slot

\* Cache.SetX adding the new data to the data the slot holds.
Store_Merge(k, d) ==
  IF k \in Cats
  THEN /\ slot' = [slot EXCEPT ![k] = NewSlot(slot[k].data \o d, Clock)]
       /\ incomeStatements' = incomeStatements
  ELSE /\ incomeStatements' =
            [t \in DOMAIN incomeStatements \cup {k} |->
               IF t = k THEN NewSlot(Lookup(k).data \o d, Clock)
               ELSE incomeStatements[t]]
       /\ slot' = slot

\* Cache.SetX keeping a slot that is still fresh instead of replacing it.
Store_KeepFresh(k, d) ==
  IF GetResult(k).found
  THEN /\ slot' = slot
       /\ incomeStatements' = incomeStatements
  ELSE IF k \in Cats
  THEN /\ slot' = [slot EXCEPT ![k] = NewSlot(d, Clock)]
       /\ incomeStatements' = incomeStatements
  ELSE /\ incomeStatements' =
            [t \in DOMAIN incomeStatements \cup {k} |->
               IF t = k THEN NewSlot(d, Clock) ELSE incomeStatements[t]]
       /\ slot' = slot

\* Cache.SetX assigning the data of an existing entry in place and leaving
\* its timestamp as it was.
Store_DataOnly(k, d) ==
  LET t == IF Lookup(k).present THEN Lookup(k).timestamp ELSE Clock
  IN IF k \in Cats
     THEN /\ slot' = [slot EXCEPT ![k] = NewSlot(d, t)]
          /\ incomeStatements' = incomeStatements
     ELSE /\ incomeStatements' =
               [x \in DOMAIN incomeStatements \cup {k} |->
                  IF x = k THEN NewSlot(d, t) ELSE incomeStatements[x]]
          /\ slot' = slot

\* The table after c.x = &cachedX{data, time.Now()} /
\* c.incomeStatements[ticker] = &cachedIncomeStatements{...}
Store(k, d) ==
  IF k \in Cats
  THEN /\ slot' = [slot EXCEPT ![k] = NewSlot(d, Clock)]
       /\ incomeStatements' = incomeStatements
  ELSE /\ incomeStatements' =
            [t \in DOMAIN incomeStatements \cup {k} |->
               IF t = k THEN NewSlot(d, Clock) ELSE incomeStatements[t]]
       /\ slot' = slot

\* the body of Cache.SetX, the deferred c.mu.Unlock() and the return to the
\* caller: an accessor returns the data it stored
SetWrite(g) ==
  /\ pc[g] = "set_write"
  /\ Store(fr[g].key, fr[g].data)
  /\ abs' = [abs EXCEPT ![fr[g].key] = NewSlot(fr[g].data, Clock)]
  /\ writer' = 0
  /\ IF fr[g].layer = "cache"
     THEN /\ pc' = [pc EXCEPT ![g] = "done"]
          /\ fr' = fr
     ELSE /\ pc' = [pc EXCEPT ![g] = Obtained(fr[g], fr[g].data)[1]]
          /\ fr' = [fr EXCEPT ![g] = Obtained(fr[g], fr[g].data)[2]]
  /\ setCount' = [setCount EXCEPT ![fr[g].key] = @ + 1]
  /\ UNCHANGED <<now, opts, cacheOn, readers, fetchCount, calls,
                 serialAtClear, sentinels>>

\* Cache.Clear taking the lock as a reader does: it waits for no reader.
ClearLock_Shared(g) ==
  /\ pc[g] = "clear_lock"
  /\ writer = 0
  /\ writer' = g
  /\ pc' = [pc EXCEPT ![g] = "clear_write"]
  /\ fr' = [fr EXCEPT ![g].i = 1]
  /\ abs' = [k \in Keys |-> NilSlot]
  /\ UNCHANGED <<now, opts, cacheOn, slot, incomeStatements, readers,
                 fetchCount, calls, setCount, serialAtClear, sentinels>>

\* c.mu.Lock() of Cache.Clear
ClearLock(g) ==
  /\ pc[g] = "clear_lock"
  /\ writer = 0
  /\ readers = {}
  /\ writer' = g
  /\ pc' = [pc EXCEPT ![g] = "clear_write"]
  /\ fr' = [fr EXCEPT ![g].i = 1]
  /\ abs' = [k \in Keys |-> NilSlot]
  /\ UNCHANGED <<now, opts, cacheOn, slot, incomeStatements, readers,
                 fetchCount, calls, setCount, serialAtClear, sentinels>>

\* Cache.Clear without its c.news = nil.
ClearOrder_NoNews ==
  <<"bluechips", "cedears", "galpones", "bonds", "shortBonds",
    "corporateBonds", "options", "futures", "indices", "marketSummary">>

\* The fields Cache.Clear sets to nil, in the order of its assignments.
ClearOrder ==
  <<"bluechips", "cedears", "galpones", "bonds", "shortBonds",
    "corporateBonds", "options", "futures", "indices", "marketSummary",
    "news">>

\* Cache.Clear without its last assignment: the map of income statements
\* is kept.
ClearWrite_KeepStatements(g) ==
  /\ pc[g] = "clear_write"
  /\ IF fr[g].i <= Len(ClearOrder)
     THEN /\ slot' = [slot EXCEPT ![ClearOrder[fr[g].i]] = NilSlot]
          /\ fr' = [fr EXCEPT ![g].i = fr[g].i + 1]
          /\ pc' = pc
          /\ writer' = writer
          /\ serialAtClear' = serialAtClear
     ELSE /\ slot' = slot
          /\ fr' = [fr EXCEPT ![g].i = 0]
          /\ pc' = [pc EXCEPT ![g] = "done"]
          /\ writer' = 0
          /\ serialAtClear' = fetchCount
  /\ UNCHANGED <<now, opts, cacheOn, incomeStatements, readers, fetchCount,
                 calls, setCount, abs, sentinels>>

\* one assignment of Cache.Clear: c.x = nil for the i-th field, and last
\* c.incomeStatements = make(map[string]*cachedIncomeStatements) with the
\* deferred c.mu.Unlock()
ClearWrite(g) ==
  /\ pc[g] = "clear_write"
  /\ IF fr[g].i <= Len(ClearOrder)
     THEN /\ slot' = [slot EXCEPT ![ClearOrder[fr[g].i]] = NilSlot]
          /\ incomeStatements' = incomeStatements
          /\ fr' = [fr EXCEPT ![g].i = fr[g].i + 1]
          /\ pc' = pc
          /\ writer' = writer
          /\ serialAtClear' = serialAtClear
     ELSE /\ incomeStatements' = [t \in {} |-> NilSlot]
          /\ slot' = slot
          /\ fr' = [fr EXCEPT ![g].i = 0]
          /\ pc' = [pc EXCEPT ![g] = "done"]
          /\ writer' = 0
          /\ serialAtClear' = fetchCount
  /\ UNCHANGED <<now, opts, cacheOn, readers, fetchCount, calls, setCount,
                 abs, sentinels>>

\* c.mu.RLock() of Cache.GetInfo
InfoRLock(g) ==
  /\ pc[g] = "info_rlock"
  /\ writer = 0
  /\ readers' = readers \cup {g}
  /\ pc' = [pc EXCEPT ![g] = "info_read"]
  /\ UNCHANGED <<now, opts, cacheOn, slot, incomeStatements, writer, fr,
                 fetchCount, calls, setCount, serialAtClear, abs, sentinels>>

\* The categories Cache.GetInfo tests for nil.
InfoCats == {"bluechips", "cedears", "galpones"}

\* The map of Cache.GetInfo with every listed slot reported fresh.
InfoMap_AlwaysFresh ==
  [c \in {k \in InfoCats : slot[k].present} |->
     [count |-> Len(slot[c].data),
      timestamp |-> slot[c].timestamp,
      age |-> Clock - slot[c].timestamp,
      fresh |-> TRUE]]

\* the map built by Cache.GetInfo
InfoMap ==
  [c \in {k \in InfoCats : slot[k].present} |->
     [count |-> Len(slot[c].data),
      timestamp |-> slot[c].timestamp,
      age |-> Clock - slot[c].timestamp,
      fresh |-> isFresh(slot[c].timestamp)]]

\* the body of Cache.GetInfo and the deferred c.mu.RUnlock()
InfoRead(g) ==
  /\ pc[g] = "info_read"
  /\ fr' = [fr EXCEPT ![g].info = InfoMap, ![g].at = Clock]
  /\ readers' = readers \ {g}
  /\ pc' = [pc EXCEPT ![g] = "done"]
  /\ UNCHANGED <<now, opts, cacheOn, slot, incomeStatements, writer,
                 fetchCount, calls, setCount, serialAtClear, abs, sentinels>>

\* time passes
Tick ==
  /\ now < Len(Times)
  /\ now' = now + 1
  /\ UNCHANGED <<opts, cacheOn, slot, incomeStatements, readers, writer, pc,
                 fr, fetchCount, calls, setCount, serialAtClear, abs,
                 sentinels>>


\* ------------------------------------------------- direct callers of Cache
\* The keys the callers pass: the first and the last collection of the
\* table and one ticker of the income-statement map.
CallKeys == {"bluechips", "news", "GGAL"}

\* a goroutine calls Cache.GetX() / Cache.GetIncomeStatement(k)
CallGet(g, k) ==
  /\ CanCall(g)
  /\ calls' = calls + 1
  /\ fr' = [fr EXCEPT ![g] = [Frame0 EXCEPT !.op = "Get", !.layer = "cache",
                                            !.key = k]]
  /\ pc' = [pc EXCEPT ![g] = "get_rlock"]
  /\ UNCHANGED <<now, opts, cacheOn, slot, incomeStatements, readers, writer,
                 fetchCount, setCount, serialAtClear, abs, sentinels>>

\* a goroutine calls Cache.SetX(d) / Cache.SetIncomeStatement(k, d)
CallSet(g, k, d) ==
  /\ CanCall(g)
  /\ calls' = calls + 1
  /\ fr' = [fr EXCEPT ![g] = [Frame0 EXCEPT !.op = "Set", !.layer = "cache",
                                            !.key = k, !.data = d]]
  /\ pc' = [pc EXCEPT ![g] = "set_lock"]
  /\ UNCHANGED <<now, opts, cacheOn, slot, incomeStatements, readers, writer,
                 fetchCount, setCount, serialAtClear, abs, sentinels>>

\* a goroutine calls Cache.Clear()
CallClear(g) ==
  /\ CanCall(g)
  /\ calls' = calls + 1
  /\ fr' = [fr EXCEPT ![g] = [Frame0 EXCEPT !.op = "Clear",
                                            !.layer = "cache"]]
  /\ pc' = [pc EXCEPT ![g] = "clear_lock"]
  /\ UNCHANGED <<now, opts, cacheOn, slot, incomeStatements, readers, writer,
                 fetchCount, setCount, serialAtClear, abs, sentinels>>

\* a goroutine calls Cache.GetInfo()
CallGetInfo(g) ==
  /\ CanCall(g)
  /\ calls' = calls + 1
  /\ fr' = [fr EXCEPT ![g] = [Frame0 EXCEPT !.op = "GetInfo",
                                            !.layer = "cache"]]
  /\ pc' = [pc EXCEPT ![g] = "info_rlock"]
  /\ UNCHANGED <<now, opts, cacheOn, slot, incomeStatements, readers, writer,
                 fetchCount, setCount, serialAtClear, abs, sentinels>>

\* ------------------------------------------------------------- client.go
\* client.GetBluechips, ..., client.GetNews, client.GetIncomeStatement:
\* the call and its cache test
GetCollection(g, k) ==
  /\ CanCall(g)
  /\ calls' = calls + 1
  /\ fr' = [fr EXCEPT ![g] =
            [Frame0 EXCEPT !.op = "GetCollection", !.layer = "client",
                           !.key = k, !.queue = <<k>>,
                           !.prevErr = IF fr[g].op = "GetCollection"
                                          /\ fr[g].key = k
                                       THEN fr[g].err ELSE "nil",
                           !.floor = serialAtClear[k]]]
  /\ pc' = [pc EXCEPT ![g] = AccessorEntry]
  /\ UNCHANGED <<now, opts, cacheOn, slot, incomeStatements, readers, writer,
                 fetchCount, setCount, serialAtClear, abs, sentinels>>

\* The symbols the callers look up: one listed in two collections, one
\* listed in the last collection only, one listed nowhere.
LookupSymbols == {"DUP", "AGRO", "ZZZ"}

\* client.GetSecurity: the call and the cache test of its first accessor
GetSecurity(g, symbol) ==
  /\ CanCall(g)
  /\ calls' = calls + 1
  /\ fr' = [fr EXCEPT ![g] = [Frame0 EXCEPT !.op = "GetSecurity",
                                            !.layer = "client",
                                            !.key = SecurityCats[1],
                                            !.queue = SecurityCats,
                                            !.sym = symbol]]
  /\ pc' = [pc EXCEPT ![g] = AccessorEntry]
  /\ UNCHANGED <<now, opts, cacheOn, slot, incomeStatements, readers, writer,
                 fetchCount, setCount, serialAtClear, abs, sentinels>>

\* The categories read by client.GetBond, in the order of the calls.
BondCats == <<"bonds", "shortBonds", "corporateBonds">>

\* client.GetBond: the call and the cache test of its first accessor
GetBond(g, symbol) ==
  /\ CanCall(g)
  /\ calls' = calls + 1
  /\ fr' = [fr EXCEPT ![g] = [Frame0 EXCEPT !.op = "GetBond",
                                            !.layer = "client",
                                            !.key = BondCats[1],
                                            !.queue = BondCats,
                                            !.sym = symbol]]
  /\ pc' = [pc EXCEPT ![g] = AccessorEntry]
  /\ UNCHANGED <<now, opts, cacheOn, slot, incomeStatements, readers, writer,
                 fetchCount, setCount, serialAtClear, abs, sentinels>>

\* client.GetMultipleSecurities: the call and the cache test of its first
\* accessor
GetMultipleSecurities(g, symbols) ==
  /\ CanCall(g)
  /\ calls' = calls + 1
  /\ fr' = [fr EXCEPT ![g] = [Frame0 EXCEPT !.op = "GetMultipleSecurities",
                                            !.layer = "client",
                                            !.key = SecurityCats[1],
                                            !.queue = SecurityCats,
                                            !.symbols = symbols]]
  /\ pc' = [pc EXCEPT ![g] = AccessorEntry]
  /\ UNCHANGED <<now, opts, cacheOn, slot, incomeStatements, readers, writer,
                 fetchCount, setCount, serialAtClear, abs, sentinels>>

\* client.SearchSecurities: the call and the cache test of its first
\* accessor
SearchSecurities(g, searchText) ==
  /\ CanCall(g)
  /\ calls' = calls + 1
  /\ fr' = [fr EXCEPT ![g] = [Frame0 EXCEPT !.op = "SearchSecurities",
                                            !.layer = "client",
                                            !.key = SecurityCats[1],
                                            !.queue = SecurityCats,
                                            !.text = searchText]]
  /\ pc' = [pc EXCEPT ![g] = AccessorEntry]
  /\ UNCHANGED <<now, opts, cacheOn, slot, incomeStatements, readers, writer,
                 fetchCount, setCount, serialAtClear, abs, sentinels>>

\* The collection each single-collection lookup of the client reads.
FindCalls ==
  [GetBluechip |-> "bluechips", GetCedear |-> "cedears",
   GetGalpone |-> "galpones", GetOption |-> "options",
   GetFuture |-> "futures"]

\* client.GetBluechip, GetCedear, GetGalpone, GetOption, GetFuture: the
\* call and the cache test of the accessor of the method's own collection
GetInCollection(g, method, symbol) ==
  /\ CanCall(g)
  /\ calls' = calls + 1
  /\ fr' = [fr EXCEPT ![g] = [Frame0 EXCEPT !.op = method,
                                            !.layer = "client",
                                            !.key = FindCalls[method],
                                            !.queue = <<FindCalls[method]>>,
                                            !.sym = symbol]]
  /\ pc' = [pc EXCEPT ![g] = AccessorEntry]
  /\ UNCHANGED <<now, opts, cacheOn, slot, incomeStatements, readers, writer,
                 fetchCount, setCount, serialAtClear, abs, sentinels>>

\* data, err := c.Client.GetX(ctx): the fetcher is invoked
FetchStart(g) ==
  /\ pc[g] = "fetch"
  /\ fetchCount' = [fetchCount EXCEPT ![fr[g].key] = @ + 1]
  /\ fr' = [fr EXCEPT ![g].fetched = TRUE,
                      ![g].fid = fetchCount[fr[g].key] + 1,
                      ![g].hot = GetResult(fr[g].key).found]
  /\ pc' = [pc EXCEPT ![g] = "fetching"]
  /\ UNCHANGED <<now, opts, cacheOn, slot, incomeStatements, readers, writer,
                 calls, setCount, serialAtClear, abs, sentinels>>

\* the fetcher returns data: if c.cache != nil { c.cache.SetX(data) }
FetchOK(g) ==
  /\ pc[g] = "fetching"
  /\ LET d == Items(fr[g].key, fr[g].fid)
     IN IF cacheOn
        THEN /\ fr' = [fr EXCEPT ![g].data = d]
             /\ pc' = [pc EXCEPT ![g] = "set_lock"]
        ELSE /\ fr' = [fr EXCEPT ![g] = Obtained(fr[g], d)[2]]
             /\ pc' = [pc EXCEPT ![g] = Obtained(fr[g], d)[1]]
  /\ UNCHANGED <<now, opts, cacheOn, slot, incomeStatements, readers, writer,
                 fetchCount, calls, setCount, serialAtClear, abs, sentinels>>

\* An accessor that stores the empty result of a failed fetch.
FetchFail_Cached(g, e) ==
  /\ pc[g] = "fetching"
  /\ fr' = [fr EXCEPT ![g].data = <<>>, ![g].ferr = e, ![g].err = e]
  /\ pc' = [pc EXCEPT ![g] = IF cacheOn THEN "set_lock" ELSE "done"]
  /\ UNCHANGED <<now, opts, cacheOn, slot, incomeStatements, readers, writer,
                 fetchCount, calls, setCount, serialAtClear, abs, sentinels>>

\* An accessor whose failed fetch is answered with an empty collection, so
\* that a composite lookup goes on with the collections it has.
FetchFail_Degrade(g, e) ==
  /\ pc[g] = "fetching"
  /\ fr' = [fr EXCEPT ![g] =
              Obtained([fr[g] EXCEPT !.ferr = e], <<>>)[2]]
  /\ pc' = [pc EXCEPT ![g] = Obtained([fr[g] EXCEPT !.ferr = e], <<>>)[1]]
  /\ UNCHANGED <<now, opts, cacheOn, slot, incomeStatements, readers, writer,
                 fetchCount, calls, setCount, serialAtClear, abs, sentinels>>

\* the fetcher fails: if err != nil { return nil, err }
FetchFail(g, e) ==
  /\ pc[g] = "fetching"
  /\ fr' = [fr EXCEPT ![g].data = <<>>, ![g].ferr = e, ![g].err = e]
  /\ pc' = [pc EXCEPT ![g] = "done"]
  /\ UNCHANGED <<now, opts, cacheOn, slot, incomeStatements, readers, writer,
                 fetchCount, calls, setCount, serialAtClear, abs, sentinels>>

\* The ctx given to the call of g is cancelled or passes its deadline while
\* the call is at any position, the entry of the method included (a ctx
\* that is already done when the method begins).  No statement of the
\* client, of the fetchers or of doRequest reads ctx.
Cancel(g) ==
  /\ pc[g] \notin {"idle", "done"}
  /\ fr[g].cancelledAt = "never"
  /\ fr' = [fr EXCEPT ![g].cancelledAt = pc[g]]
  /\ UNCHANGED <<now, opts, cacheOn, slot, incomeStatements, readers, writer,
                 pc, fetchCount, calls, setCount, serialAtClear, abs,
                 sentinels>>

\* ------------------------------------------- utils/conversion.go, news.go
\* A JSON string / a JSON number as decoded into interface{}.
JSONString(s) == [json |-> "string", v |-> s]

JSONNumber(n) == [json |-> "number", v |-> n]

\* utils.GetString: m[key] when present and a string, "" otherwise
GetString(m, key) ==
  IF key \in DOMAIN m /\ m[key].json = "string" THEN m[key].v ELSE ""

\* The layout a time text is written in.
LayoutOf(s) ==
  CASE s = "2023-12-01T10:00:00Z" -> "RFC3339"
    [] s = "2023-12-02T10:00:00" -> "2006-01-02T15:04:05"
    [] s = "2023-12-03" -> "2006-01-02"
    [] OTHER -> "none"

\* The instant a time text denotes, in days of December 2023; the zero
\* time.Time is 0.
InstantOf(s) ==
  CASE s = "2023-12-01T10:00:00Z" -> 1
    [] s = "2023-12-02T10:00:00" -> 2
    [] s = "2023-12-03" -> 3
    [] OTHER -> 0

\* time.Parse(layout, s)
TimeParse(layout, s) ==
  IF LayoutOf(s) = layout
  THEN [t |-> InstantOf(s), err |-> FALSE]
  ELSE [t |-> 0, err |-> TRUE]

\* The formats utils.GetTime tries, in order.
TimeFormats ==
  <<"RFC3339", "2006-01-02T15:04:05", "2006-01-02 15:04:05", "2006-01-02">>

\* the loop of utils.GetTime over its formats from the i-th on
RECURSIVE TryFormats(_, _)
TryFormats(s, i) ==
  IF i > Len(TimeFormats) THEN 0
  ELSE IF ~TimeParse(TimeFormats[i], s).err
  THEN TimeParse(TimeFormats[i], s).t
  ELSE TryFormats(s, i + 1)

\* utils.GetTime: the time parsed from m[key], the zero time otherwise
GetTime(m, key) ==
  IF key \in DOMAIN m /\ m[key].json = "string"
  THEN TryFormats(m[key].v, 1)
  ELSE 0

\* newsItem := News{...} of GetNews; a concatenation is the sequence of its
\* parts
NewsItem(raw) ==
  [Fecha |-> GetTime(raw, "fecha"),
   Titulo |-> GetString(raw, "emisor"),
   Descripcion |-> GetString(raw, "referencia"),
   Descarga |-> <<"https://open.bymadata.com.ar/.../sba/download/",
                  GetString(raw, "descarga")>>]

\* the loop of GetNews: one News per item of the payload, in its order
ParseNews(rawNews) == [i \in 1..Len(rawNews) |-> NewsItem(rawNews[i])]

\* a goroutine calls api.Client.GetNews against a server that answers with
\* the payload rawNews
CallGetNews(g, rawNews) ==
  /\ CanCall(g)
  /\ calls' = calls + 1
  /\ fr' = [fr EXCEPT ![g] =
              [Frame0 EXCEPT !.op = "api.GetNews", !.layer = "api",
                             !.arg = rawNews,
                             !.data = ParseNews(rawNews)]]
  /\ pc' = [pc EXCEPT ![g] = "done"]
  /\ UNCHANGED <<now, opts, cacheOn, slot, incomeStatements, readers, writer,
                 fetchCount, setCount, serialAtClear, abs, sentinels>>

\* a goroutine calls MapHTTPError(statusCode)
CallMapHTTPError(g, statusCode) ==
  /\ CanCall(g)
  /\ calls' = calls + 1
  /\ fr' = [fr EXCEPT ![g] =
              [Frame0 EXCEPT !.op = "MapHTTPError", !.layer = "types",
                             !.statusCode = statusCode,
                             !.ret = MapHTTPError(statusCode)]]
  /\ pc' = [pc EXCEPT ![g] = "done"]
  /\ UNCHANGED <<now, opts, cacheOn, slot, incomeStatements, readers, writer,
                 fetchCount, setCount, serialAtClear, abs, sentinels>>

\* a goroutine calls IsRetryable(err)
CallIsRetryable(g, err) ==
  /\ CanCall(g)
  /\ calls' = calls + 1
  /\ fr' = [fr EXCEPT ![g] =
              [Frame0 EXCEPT !.op = "IsRetryable", !.layer = "types",
                             !.arg = err,
                             !.retryable = IsRetryable(err)]]
  /\ pc' = [pc EXCEPT ![g] = "done"]
  /\ UNCHANGED <<now, opts, cacheOn, slot, incomeStatements, readers, writer,
                 fetchCount, setCount, serialAtClear, abs, sentinels>>

\* ------------------------------------------------- internal/api/client.go
\* RetryAttempts of DefaultClientOptions, copied by NewClient and api.New to
\* Client.retryAttempts.
RetryAttempts == 3

\* What c.httpClient.Do returns: a response with a status code and a
\* body, or an error and no response. Body names the bytes read from
\* resp.Body, 0 those of no body.
Response(statusCode) ==
  [err |-> NilError, StatusCode |-> statusCode, Body |-> 0]

NoResponse ==
  [err |-> ErrorString(<<"connection refused">>), StatusCode |-> 0,
   Body |-> 0]

\* makeRequest: the error of Do wrapped, the error made of a status code
\* outside 200..299, or the body
makeRequest(resp) ==
  IF resp.err # NilError
  THEN [ok |-> FALSE, err |-> WrapError(<<"request failed">>, resp.err),
        body |-> 0]
  ELSE IF resp.StatusCode < 200 \/ resp.StatusCode >= 300
  THEN [ok |-> FALSE, err |-> Errorf("HTTP error %d", resp.StatusCode),
        body |-> 0]
  ELSE [ok |-> TRUE, err |-> NilError, body |-> resp.Body]

\* isRetryable of the transport that retries nothing.
isRetryable_Never(err) == FALSE

\* isRetryable of the transport
isRetryable(err) == TRUE

\* time.Second, in milliseconds.
Second == 1000

\* waitTime := time.Duration(attempt) * time.Second
waitTime(attempt) == attempt * Second

\* the loop of doRequest from the given attempt on: responses[attempt + 1]
\* is what the server answers to that attempt; the result carries the
\* number of makeRequest calls made and the waits slept before them
RECURSIVE doRequestFrom(_, _, _)
doRequestFrom(responses, attempt, lastErr) ==
  IF attempt > RetryAttempts
  THEN [ok |-> FALSE,
        err |-> WrapError(Sprintf("request failed after %d attempts",
                                  RetryAttempts + 1), lastErr),
        body |-> 0, attempts |-> 0, waits |-> <<>>]
  ELSE LET slept == IF attempt > 0 THEN <<waitTime(attempt)>> ELSE <<>>
           r == makeRequest(responses[attempt + 1])
       IN IF r.err # NilError
          THEN IF ~isRetryable(r.err)
               THEN [ok |-> FALSE,
                     err |-> WrapError(
                               Sprintf("request failed after %d attempts",
                                       RetryAttempts + 1), r.err),
                     body |-> 0, attempts |-> 1, waits |-> slept]
               ELSE LET rest == doRequestFrom(responses, attempt + 1, r.err)
                    IN [rest EXCEPT !.attempts = @ + 1,
                                    !.waits = slept \o @]
          ELSE [ok |-> TRUE, err |-> NilError, body |-> r.body,
                attempts |-> 1, waits |-> slept]

\* doRequest
doRequest(responses) == doRequestFrom(responses, 0, NilError)

\* the request of the fetcher fails on every attempt: doRequest returns its
\* error, the fetcher returns it and the accessor returns it
\* (if err != nil { return nil, err })
FetchHTTP(g, responses) ==
  /\ pc[g] = "fetching"
  /\ ~doRequest(responses).ok
  /\ fr' = [fr EXCEPT ![g].data = <<>>, ![g].ferr = "request failed",
                      ![g].err = "request failed",
                      ![g].responses = responses,
                      ![g].errv = doRequest(responses).err]
  /\ pc' = [pc EXCEPT ![g] = "done"]
  /\ UNCHANGED <<now, opts, cacheOn, slot, incomeStatements, readers, writer,
                 fetchCount, calls, setCount, serialAtClear, abs, sentinels>>

\* The slice d after the caller's assignment d[i].Symbol = "EDITED".
Edit(d, i) == [d EXCEPT ![i].Symbol = "EDITED"]

\* The slice d shares its backing array with the n-th payload fetched for
\* its category: slices are stored and returned without a copy, and the
\* Last of a record names the fetch that allocated it.
SameArray(d, n) == d # <<>> /\ d[1].Last = n

\* The caller of a finished call writes the Symbol of a record it was given:
\* element i of the slice an accessor returned, or the record behind the
\* pointer a lookup returned. Cache.SetX stored the slice header and
\* Cache.GetX returned it, so the write lands in the array the slot of the
\* category holds, as long as the slot still holds that array.
CallerWrite(g) ==
  /\ pc[g] = "done"
  /\ fr[g].err = "nil"
  /\ \/ /\ fr[g].op = "GetCollection"
        /\ fr[g].key \in Cats
        /\ \E i \in 1..Len(fr[g].data) :
             LET k == fr[g].key
                 n == fr[g].data[1].Last
             IN /\ fr[g].data[i].Symbol # "EDITED"
                /\ fr' = [fr EXCEPT ![g].data = Edit(@, i)]
                /\ slot' = [slot EXCEPT ![k].data =
                              IF SameArray(@, n) THEN Edit(@, i) ELSE @]
     \/ /\ fr[g].op = "GetSecurity"
        /\ fr[g].ptr # NilPtr
        /\ LET k == fr[g].ptr.coll
               i == fr[g].ptr.idx
               j == CHOOSE x \in 1..Len(SecurityCats) : SecurityCats[x] = k
               n == fr[g].colls[j][1].Last
           IN /\ fr[g].colls[j][i].Symbol # "EDITED"
              /\ fr' = [fr EXCEPT ![g].colls[j] = Edit(@, i)]
              /\ slot' = [slot EXCEPT ![k].data =
                            IF SameArray(@, n) THEN Edit(@, i) ELSE @]
  /\ UNCHANGED <<now, opts, cacheOn, incomeStatements, readers, writer, pc,
                 fetchCount, calls, setCount, serialAtClear, abs, sentinels>>

\* a goroutine calls Client.doRequest against a server that answers the
\* attempts with the given responses
CallDoRequest(g, responses) ==
  /\ CanCall(g)
  /\ calls' = calls + 1
  /\ fr' = [fr EXCEPT ![g] =
              [Frame0 EXCEPT !.op = "doRequest", !.layer = "api",
                             !.responses = responses,
                             !.ret = doRequest(responses)]]
  /\ pc' = [pc EXCEPT ![g] = "done"]
  /\ UNCHANGED <<now, opts, cacheOn, slot, incomeStatements, readers, writer,
                 fetchCount, setCount, serialAtClear, abs, sentinels>>

\* client.ClearCache
ClearCache(g) ==
  /\ CanCall(g)
  /\ calls' = calls + 1
  /\ fr' = [fr EXCEPT ![g] = [Frame0 EXCEPT !.op = "ClearCache",
                                            !.layer = "client"]]
  /\ pc' = [pc EXCEPT ![g] = IF cacheOn THEN "clear_lock" ELSE "done"]
  /\ UNCHANGED <<now, opts, cacheOn, slot, incomeStatements, readers, writer,
                 fetchCount, setCount, serialAtClear, abs, sentinels>>

\* client.GetCacheInfo
GetCacheInfo(g) ==
  /\ CanCall(g)
  /\ calls' = calls + 1
  /\ fr' = [fr EXCEPT ![g] = [Frame0 EXCEPT !.op = "GetCacheInfo",
                                            !.layer = "client"]]
  /\ pc' = [pc EXCEPT ![g] = IF cacheOn THEN "info_rlock" ELSE "done"]
  /\ UNCHANGED <<now, opts, cacheOn, slot, incomeStatements, readers, writer,
                 fetchCount, setCount, serialAtClear, abs, sentinels>>

\* ------------------------------------------------------- specifications
\* The state after NewClient(o) / cache.New().
InitWith(o) ==
  /\ now = 1
  /\ opts = o
  /\ cacheOn = NewClient(o)
  /\ slot = [c \in Cats |-> NilSlot]
  /\ incomeStatements = [t \in {} |-> NilSlot]
  /\ readers = {}
  /\ writer = 0
  /\ pc = [g \in Procs |-> "idle"]
  /\ fr = [g \in Procs |-> Frame0]
  /\ fetchCount = [k \in Keys |-> 0]
  /\ calls = 0
  /\ setCount = [k \in Keys |-> 0]
  /\ serialAtClear = [k \in Keys |-> 0]
  /\ sentinels = Sentinels
  /\ abs = [k \in Keys |-> NilSlot]

\* NewClient()
Init == InitWith([given |-> FALSE, EnableCache |-> FALSE])

\* a step of a cache method
CacheStep(g) ==
  \/ GetRLock(g)
  \/ GetRead(g)
  \/ SetLock(g)
  \/ SetWrite(g)
  \/ ClearLock(g)
  \/ ClearWrite(g)
  \/ InfoRLock(g)
  \/ InfoRead(g)

\* a call of a collection accessor or of the cache management
CollectionCall(g) ==
  \/ \E k \in CallKeys : GetCollection(g, k)
  \/ ClearCache(g)
  \/ GetCacheInfo(g)

\* a call of a symbol lookup
LookupCall(g) ==
  \/ \E symbol \in LookupSymbols : GetSecurity(g, symbol)

\* a step inside a collection accessor
AccessorStep(g) ==
  \/ GetRLock(g)
  \/ GetRead(g)
  \/ FetchStart(g)
  \/ FetchOK(g)
  \/ \E e \in Errs : FetchFail(g, e)
  \/ SetLock(g)
  \/ SetWrite(g)

\* a step inside a client method
ClientStep(g) ==
  \/ AccessorStep(g)
  \/ ClearLock(g)
  \/ ClearWrite(g)
  \/ InfoRLock(g)
  \/ InfoRead(g)

\* a step of a direct caller of the cache
DirectStep(g) ==
  \/ \E k \in CallKeys : CallGet(g, k)
  \/ \E k \in CallKeys, d \in RawData : CallSet(g, k, d)
  \/ CallClear(g)
  \/ CallGetInfo(g)
  \/ CacheStep(g)

\* goroutines sharing one client
Next == Tick \/ \E g \in Procs : CollectionCall(g) \/ ClientStep(g)

Spec == Init /\ [][Next]_vars

\* one goroutine making its calls one after the other
NextSeq == Tick \/ CollectionCall(1) \/ LookupCall(1) \/ ClientStep(1)

SeqSpec == Init /\ [][NextSeq]_vars

\* Number of calls started in one behaviour of goroutines mixing collection
\* accessors and symbol lookups.
MaxMixCalls == 2

\* goroutines sharing one client, mixing collection accessors and lookups,
\* all inside one freshness window (the clock stays at the start)
NextMix ==
  \/ \E g \in Procs :
       \/ calls < MaxMixCalls /\ \E k \in CallKeys : GetCollection(g, k)
       \/ calls < MaxMixCalls /\ LookupCall(g)
       \/ AccessorStep(g)

MixSpec == Init /\ [][NextMix]_vars

\* one goroutine using a client made with any of the options
InitOpts == \E o \in OptionInputs : InitWith(o)

OptSpec == InitOpts /\ [][NextSeq]_vars

\* Longest collection the lookups are tried on.
MaxLen == 2

\* The symbols the collections of the lookup inputs are made of.
PoolSymbols == {"DUP", "AGRO"}

\* The collections the lookups are tried on: any symbols of the pool, the
\* i-th record told apart by its Last.
LookupInputs ==
  UNION {{[i \in 1..n |-> [Symbol |-> f[i], Last |-> i]] :
            f \in [1..n -> PoolSymbols]} : n \in 0..MaxLen}

\* a cache in which the three security collections were just stored
InitLookup ==
  /\ \E b \in LookupInputs, c \in LookupInputs, p \in LookupInputs :
       LET stored == [k \in Cats |->
                        IF k = "bluechips" THEN NewSlot(b, 0)
                        ELSE IF k = "cedears" THEN NewSlot(c, 0)
                        ELSE IF k = "galpones" THEN NewSlot(p, 0)
                        ELSE NilSlot]
       IN /\ slot = stored
          /\ abs = [k \in Keys |-> IF k \in Cats THEN stored[k] ELSE NilSlot]
  /\ setCount = [k \in Keys |->
                   IF k \in {"bluechips", "cedears", "galpones"}
                   THEN 1 ELSE 0]
  /\ now = 1
  /\ opts = [given |-> FALSE, EnableCache |-> FALSE]
  /\ cacheOn = NewClient(opts)
  /\ incomeStatements = [t \in {} |-> NilSlot]
  /\ readers = {}
  /\ writer = 0
  /\ pc = [g \in Procs |-> "idle"]
  /\ fr = [g \in Procs |-> Frame0]
  /\ fetchCount = [k \in Keys |-> 0]
  /\ calls = 0
  /\ serialAtClear = [k \in Keys |-> 0]
  /\ sentinels = Sentinels

\* one symbol lookup answered from the cache
NextLookup ==
  \/ calls = 0 /\ LookupCall(1)
  \/ GetRLock(1)
  \/ GetRead(1)

LookupSpec == InitLookup /\ [][NextLookup]_vars

\* a cache in which the three bond collections were just stored
InitBonds ==
  /\ \E b \in LookupInputs, c \in LookupInputs, p \in LookupInputs :
       LET stored == [k \in Cats |->
                        IF k = "bonds" THEN NewSlot(b, 0)
                        ELSE IF k = "shortBonds" THEN NewSlot(c, 0)
                        ELSE IF k = "corporateBonds" THEN NewSlot(p, 0)
                        ELSE NilSlot]
       IN /\ slot = stored
          /\ abs = [k \in Keys |-> IF k \in Cats THEN stored[k] ELSE NilSlot]
  /\ setCount = [k \in Keys |->
                   IF k \in {"bonds", "shortBonds", "corporateBonds"}
                   THEN 1 ELSE 0]
  /\ now = 1
  /\ opts = [given |-> FALSE, EnableCache |-> FALSE]
  /\ cacheOn = NewClient(opts)
  /\ incomeStatements = [t \in {} |-> NilSlot]
  /\ readers = {}
  /\ writer = 0
  /\ pc = [g \in Procs |-> "idle"]
  /\ fr = [g \in Procs |-> Frame0]
  /\ fetchCount = [k \in Keys |-> 0]
  /\ calls = 0
  /\ serialAtClear = [k \in Keys |-> 0]
  /\ sentinels = Sentinels

\* one bond lookup answered from the cache
NextBond ==
  \/ calls = 0 /\ \E symbol \in LookupSymbols : GetBond(1, symbol)
  \/ GetRLock(1)
  \/ GetRead(1)

BondSpec == InitBonds /\ [][NextBond]_vars

\* Longest list of symbols requested in one batch.
MaxSymbols == 2

\* The lists of symbols the callers request in one batch.
SymbolLists == UNION {[1..n -> LookupSymbols] : n \in 0..MaxSymbols}

\* one batch lookup answered from the cache
NextBatch ==
  \/ calls = 0 /\ \E symbols \in SymbolLists : GetMultipleSecurities(1, symbols)
  \/ GetRLock(1)
  \/ GetRead(1)

BatchSpec == InitLookup /\ [][NextBatch]_vars

\* Number of records the three collections searched hold together.
MaxRecords == 2

\* Longest search text.
MaxText == 3

\* The symbols the searched collections are made of: an empty symbol, a
\* symbol that is a prefix of another, a symbol in mixed case.
SearchPool == {"", "AAP", "AAPL", "aPl"}

\* The bytes of the search texts: 'A', 'a', 'P', 'L'.
TextBytes == {65, 97, 80, 76}

SearchTexts == UNION {[1..n -> TextBytes] : n \in 0..MaxText}

SearchInputs ==
  UNION {{[i \in 1..n |-> [Symbol |-> f[i], Last |-> i]] :
            f \in [1..n -> SearchPool]} : n \in 0..MaxRecords}

\* a cache in which the three security collections to search were just
\* stored
InitSearch ==
  /\ \E b \in SearchInputs, c \in SearchInputs, p \in SearchInputs :
       /\ Len(b) + Len(c) + Len(p) <= MaxRecords
       /\ LET stored == [k \in Cats |->
                           IF k = "bluechips" THEN NewSlot(b, 0)
                           ELSE IF k = "cedears" THEN NewSlot(c, 0)
                           ELSE IF k = "galpones" THEN NewSlot(p, 0)
                           ELSE NilSlot]
          IN /\ slot = stored
             /\ abs = [k \in Keys |->
                         IF k \in Cats THEN stored[k] ELSE NilSlot]
  /\ setCount = [k \in Keys |->
                   IF k \in {"bluechips", "cedears", "galpones"}
                   THEN 1 ELSE 0]
  /\ now = 1
  /\ opts = [given |-> FALSE, EnableCache |-> FALSE]
  /\ cacheOn = NewClient(opts)
  /\ incomeStatements = [t \in {} |-> NilSlot]
  /\ readers = {}
  /\ writer = 0
  /\ pc = [g \in Procs |-> "idle"]
  /\ fr = [g \in Procs |-> Frame0]
  /\ fetchCount = [k \in Keys |-> 0]
  /\ calls = 0
  /\ serialAtClear = [k \in Keys |-> 0]
  /\ sentinels = Sentinels

\* one search answered from the cache
NextSearch ==
  \/ calls = 0 /\ \E searchText \in SearchTexts : SearchSecurities(1, searchText)
  \/ GetRLock(1)
  \/ GetRead(1)

SearchSpec == InitSearch /\ [][NextSearch]_vars

\* The bond symbols the callers look up: one listed by two collections and
\* one listed nowhere.
BondSymbols == {"AL30", "ZZZ"}

\* The texts the callers of the composite lookups search: the empty text
\* and "ga".
CompositeTexts == {<<>>, <<103, 97>>}

\* a call of a composite lookup
CompositeCall(g) ==
  \/ \E symbol \in LookupSymbols : GetSecurity(g, symbol)
  \/ \E symbol \in BondSymbols : GetBond(g, symbol)
  \/ \E symbols \in SymbolLists : GetMultipleSecurities(g, symbols)
  \/ \E searchText \in CompositeTexts : SearchSecurities(g, searchText)

\* one goroutine making composite lookups whose fetches succeed or fail,
\* all inside one freshness window
NextComposite ==
  \/ calls < MaxMixCalls /\ CompositeCall(1)
  \/ AccessorStep(1)

CompositeSpec == Init /\ [][NextComposite]_vars

\* The symbols looked up in one collection: one of the pool, the same in
\* lower case, one listed nowhere.
FindSymbols == {"DUP", "dup", "ZZZ"}

\* a cache in which the five collections of the single-collection lookups
\* were just stored
InitFind ==
  /\ \E x \in LookupInputs, y \in LookupInputs :
       LET stored == [k \in Cats |->
                        IF k \in {"bluechips", "options"} THEN NewSlot(x, 0)
                        ELSE IF k \in {"cedears", "galpones", "futures"}
                        THEN NewSlot(y, 0)
                        ELSE NilSlot]
       IN /\ slot = stored
          /\ abs = [k \in Keys |-> IF k \in Cats THEN stored[k] ELSE NilSlot]
  /\ setCount = [k \in Keys |->
                   IF k \in {"bluechips", "cedears", "galpones", "options",
                             "futures"}
                   THEN 1 ELSE 0]
  /\ now = 1
  /\ opts = [given |-> FALSE, EnableCache |-> FALSE]
  /\ cacheOn = NewClient(opts)
  /\ incomeStatements = [t \in {} |-> NilSlot]
  /\ readers = {}
  /\ writer = 0
  /\ pc = [g \in Procs |-> "idle"]
  /\ fr = [g \in Procs |-> Frame0]
  /\ fetchCount = [k \in Keys |-> 0]
  /\ calls = 0
  /\ serialAtClear = [k \in Keys |-> 0]
  /\ sentinels = Sentinels

\* one single-collection lookup answered from the cache
NextFind ==
  \/ calls = 0 /\ \E method \in DOMAIN FindCalls, symbol \in FindSymbols :
                     GetInCollection(1, method, symbol)
  \/ GetRLock(1)
  \/ GetRead(1)

FindSpec == InitFind /\ [][NextFind]_vars

\* The keys of the accessors called by a program that reads the income
\* statements of two companies and one collection.
StatementKeys == Tickers \cup {"bluechips"}

\* one goroutine reading income statements and a collection, one call
\* after the other
NextStatements ==
  \/ Tick
  \/ \E k \in StatementKeys : GetCollection(1, k)
  \/ AccessorStep(1)

StatementSpec == Init /\ [][NextStatements]_vars

\* goroutines sharing one cache.Cache that they set, get and clear
NextTable ==
  \/ Tick
  \/ \E g \in Procs :
       \/ calls < MaxMixCalls /\ \E k \in CallKeys : CallGet(g, k)
       \/ calls < MaxMixCalls
            /\ \E k \in CallKeys, d \in RawData : CallSet(g, k, d)
       \/ calls < MaxMixCalls /\ CallClear(g)
       \/ GetRLock(g)
       \/ GetRead(g)
       \/ SetLock(g)
       \/ SetWrite(g)
       \/ ClearLock(g)
       \/ ClearWrite(g)

TableSpec == Init /\ [][NextTable]_vars

\* one goroutine calling the collection accessors with contexts that may
\* be cancelled
NextContext ==
  \/ Tick
  \/ \E k \in CallKeys : GetCollection(1, k)
  \/ AccessorStep(1)
  \/ Cancel(1)

ContextSpec == Init /\ [][NextContext]_vars

\* The items of the news payloads: the item of the library's test, the item
\* the exchange serves, an item with both sets of fields, and items with a
\* date in another layout, with an unparsable date and a title that is not
\* a string, and with no file.
RawNewsItems ==
  {[fecha |-> JSONString("2023-12-01T10:00:00Z"),
    titulo |-> JSONString("Test News Title"),
    descripcion |-> JSONString("Test news description"),
    descarga |-> JSONString("test-file.pdf")],
   [fecha |-> JSONString("2023-12-02T10:00:00"),
    emisor |-> JSONString("YPF S.A."),
    referencia |-> JSONString("Hecho relevante"),
    descarga |-> JSONString("123.pdf")],
   [fecha |-> JSONString("2023-12-03"),
    titulo |-> JSONString("Test News Title"),
    descripcion |-> JSONString("Test news description"),
    emisor |-> JSONString("YPF S.A."),
    referencia |-> JSONString("Hecho relevante"),
    descarga |-> JSONString("123.pdf")],
   [fecha |-> JSONString("01/12/2023"),
    titulo |-> JSONNumber(7),
    emisor |-> JSONNumber(7),
    descarga |-> JSONString("test-file.pdf")],
   [fecha |-> JSONString("2023-12-03"),
    emisor |-> JSONString("YPF S.A.")],
   [descarga |-> JSONString("123.pdf")]}

\* The payloads of the news endpoint.
RawNewsInputs == UNION {[1..n -> RawNewsItems] : n \in 0..MaxLen}

\* one goroutine fetching the news
NextNews == \E rawNews \in RawNewsInputs : CallGetNews(1, rawNews)

NewsSpec == Init /\ [][NextNews]_vars

\* The status codes given to MapHTTPError: the cases of its switch, their
\* neighbours, and codes that no server sends.
StatusCodes ==
  {-1, 0, 200, 400, 401, 402, 404, 407, 408, 409, 428, 429, 430, 499, 500,
   501, 502, 503, 504, 599}

\* The status codes of the errors given to IsRetryable.
ErrorStatuses == {0, 408, 499, 500, 503}

\* The errors a *BYMAError is made to wrap.
Underlyings == {NilError, ErrorString(<<"assert.AnError">>)}

\* The errors given to IsRetryable: the package-level errors, bare and
\* with a status code, an underlying error or both; errors made by
\* NewBYMAError with the code HTTP_ERROR and with a code of the program's
\* own; nil, an error of another type, and a *BYMAError wrapped by
\* fmt.Errorf.
ErrorInputs ==
  {sentinels[n] : n \in DOMAIN sentinels}
  \cup {WithUnderlying(WithStatusCode(sentinels[n], c), u) :
          n \in DOMAIN sentinels, c \in ErrorStatuses, u \in Underlyings}
  \cup {WithUnderlying(
           WithStatusCode(NewBYMAError(code, <<"Server error">>), c), u) :
          code \in {"HTTP_ERROR", "CUSTOM"}, c \in ErrorStatuses,
          u \in Underlyings}
  \cup {NilError, ErrorString(<<"HTTP error 500">>),
        WrapError(<<"request failed">>, sentinels.ErrTimeout),
        WrapError(<<"request failed">>, MapHTTPError(500))}

\* one goroutine mapping status codes and classifying errors
NextErrors ==
  \/ \E statusCode \in StatusCodes : CallMapHTTPError(1, statusCode)
  \/ \E err \in ErrorInputs : CallIsRetryable(1, err)

ErrorSpec == Init /\ [][NextErrors]_vars

\* What the server answers to one attempt: success, a client error, rate
\* limiting, an unavailable service, or nothing.
Responses ==
  {Response(200), Response(404), Response(429), Response(503), NoResponse}

\* What the server answers to the attempts of one request, the body of
\* the i-th answer being named i.
ResponseLists ==
  {[i \in 1..(RetryAttempts + 1) |-> [f[i] EXCEPT !.Body = i]] :
     f \in [1..(RetryAttempts + 1) -> Responses]}

\* one goroutine calling the accessor of the bluechips against a server
\* that answers each attempt in any of the ways
NextHTTP ==
  \/ calls < MaxMixCalls /\ GetCollection(1, "bluechips")
  \/ GetRLock(1)
  \/ GetRead(1)
  \/ FetchStart(1)
  \/ FetchOK(1)
  \/ \E responses \in ResponseLists : FetchHTTP(1, responses)
  \/ SetLock(1)
  \/ SetWrite(1)

HTTPSpec == Init /\ [][NextHTTP]_vars

\* goroutines sharing one client, each scheduled again and again: a
\* goroutine that can take a step (a lock that is free, a fetch that
\* answers or fails) eventually takes one. The clock stands still: a get
\* hits a stored slot and misses on the cold and on the cleared cache.
NextLive ==
  \E g \in Procs :
    \/ calls < MaxMixCalls /\ CollectionCall(g)
    \/ ClientStep(g)

LiveSpec ==
  Init /\ [][NextLive]_vars /\ \A g \in Procs : WF_vars(ClientStep(g))

\* one caller that writes to what the client returned to it
NextAlias ==
  \/ Tick
  \/ /\ calls < MaxMixCalls
     /\ \/ GetCollection(1, "bluechips")
        \/ LookupCall(1)
  \/ AccessorStep(1)
  \/ CallerWrite(1)

AliasSpec == Init /\ [][NextAlias]_vars

\* one goroutine making requests, one after the other
NextRetry == \E responses \in ResponseLists : CallDoRequest(1, responses)

RetrySpec == Init /\ [][NextRetry]_vars

\* goroutines sharing one cache.Cache
NextCache == Tick \/ \E g \in Procs : DirectStep(g)

CacheSpec == Init /\ [][NextCache]_vars

\* ------------------------------------------------------------------ claims
\* The Cache.GetX calls that have returned.
GetsDone == {g \in Procs : pc[g] = "done" /\ fr[g].op = "Get"}

\* C1: a get issued at time t returns (d, true) when the last set of its
\* key since the last clear stored d at a time T with t - T < Duration, and
\* (nothing, false) when there is no such set or t - T >= Duration.
C1_Freshness ==
  \A g \in GetsDone :
    IF fr[g].want.present /\ fr[g].at - fr[g].want.timestamp < Duration
    THEN fr[g].found /\ fr[g].data = fr[g].want.data
    ELSE ~fr[g].found /\ fr[g].data = <<>>

\* One get hit a slot in the last minute of its window and another get
\* missed the same slot at the exact end of the window.
C1_Witness ==
  \E g, h \in GetsDone :
    /\ fr[g].key = fr[h].key
    /\ fr[g].want = fr[h].want
    /\ fr[g].want.present
    /\ fr[g].at - fr[g].want.timestamp = Duration - 1
    /\ fr[g].found
    /\ fr[h].at - fr[h].want.timestamp = Duration
    /\ ~fr[h].found

\* The accessor calls that have returned.
AccessorsDone == {g \in Procs : pc[g] = "done" /\ fr[g].op = "GetCollection"}

\* C2: in a sequence of accessor calls the fetcher is invoked only when the
\* slot of the category is absent or stale, and a call that does not invoke
\* it returns the stored sequence.
C2_NoRefetchOnHit ==
  /\ [](\A g \in AccessorsDone :
          (fr[g].err = "nil" /\ ~fr[g].fetched) =>
            /\ Lookup(fr[g].key).present
            /\ fr[g].data = Lookup(fr[g].key).data)
  /\ [][\A g \in Procs :
          (pc[g] = "fetch" /\ pc'[g] = "fetching") =>
            ~GetResult(fr[g].key).found]_vars

\* A later call of a sequence was answered from the slot the one fetch of
\* the category had stored.
C2_Witness ==
  \E g \in AccessorsDone :
    /\ ~fr[g].fetched
    /\ fr[g].found
    /\ fetchCount[fr[g].key] = 1
    /\ setCount[fr[g].key] = 1
    /\ calls = MaxCalls

\* C3: an accessor call whose fetch failed returns the fetcher's error and
\* no data and leaves the slot it found as it found it, so the cache still
\* misses; the call that follows a failed call invokes the fetcher again.
C3_FailuresNotCached ==
  \A g \in AccessorsDone :
    /\ fr[g].err # "nil" =>
         /\ fr[g].err \in Errs
         /\ fr[g].err = fr[g].ferr
         /\ fr[g].data = <<>>
         /\ fr[g].fetched
         /\ Lookup(fr[g].key) = fr[g].seen
         /\ ~GetResult(fr[g].key).found
    /\ fr[g].prevErr # "nil" => fr[g].fetched

\* A call failed over a stale slot right after another failed call.
C3_Witness ==
  \E g \in AccessorsDone :
    /\ fr[g].err # "nil"
    /\ fr[g].prevErr # "nil"
    /\ fr[g].seen.present

\* Some Cache.Clear is between its first and its last assignment.
Clearing == \E g \in Procs : pc[g] = "clear_write"

\* C4: once a clear has returned, a get finds nothing for any category or
\* ticker that has not been set since.
C4_ClearInvalidatesAll ==
  /\ ~Clearing => \A k \in Keys : ~abs[k].present => ~GetResult(k).found
  /\ \A g \in GetsDone : ~fr[g].want.present => ~fr[g].found

\* A ticker was set, the cache was cleared and a get of the ticker, made
\* while the stored slot would still have been fresh, found nothing.
C4_Witness ==
  \E g \in GetsDone, h \in Procs :
    /\ pc[h] = "done"
    /\ fr[h].op = "Clear"
    /\ fr[g].key \in Tickers
    /\ setCount[fr[g].key] > 0
    /\ ~fr[g].want.present
    /\ ~fr[g].found
    /\ now = 1

\* C5: an accessor call made after ClearCache returned never returns data
\* of a fetch that was invoked before that ClearCache returned.
C5_NoPreClearData ==
  \A g \in AccessorsDone :
    fr[g].err = "nil" => fr[g].data[1].Last > fr[g].floor

\* C6: a client made with EnableCache: false stores nothing, fetches on
\* every accessor call and reports an empty cache info.
C6_DisabledCacheNeverCaches ==
  (opts.given /\ ~opts.EnableCache) =>
    /\ \A k \in Keys : ~Lookup(k).present
    /\ \A g \in AccessorsDone : fr[g].fetched
    /\ \A g \in Procs :
         (pc[g] = "done" /\ fr[g].op = "GetCacheInfo") =>
           fr[g].info = EmptyInfo

\* The goroutines inside the critical section of a set or a clear.
InWrite == {g \in Procs : pc[g] \in {"set_write", "clear_write"}}

\* The goroutines inside the critical section of a get or an info.
InRead == {g \in Procs : pc[g] \in {"get_read", "info_read"}}

\* C7: at most one set or clear is inside its critical section, and then no
\* get or info is; the readers inside see a table to which every set and
\* clear was applied in full.
C7_ReaderWriterExclusion ==
  /\ Cardinality(InWrite) <= 1
  /\ InWrite # {} => InRead = {}
  /\ readers = InRead
  /\ InWrite = IF writer = 0 THEN {} ELSE {writer}
  /\ InRead # {} => \A k \in Keys : Lookup(k) = abs[k]

\* A get and an info are inside their critical sections together, reading
\* a table that holds a slot.
C7_Witness ==
  /\ InRead = Procs
  /\ \E g, h \in Procs : pc[g] = "get_read" /\ pc[h] = "info_read"
  /\ \E k \in Keys : Lookup(k).present

\* C8: whatever the order of the fetches, the slot of a key is the data and
\* the capture time of the set of that key that was executed last.
C8_LastSetWins == ~Clearing => \A k \in Keys : Lookup(k) = abs[k]

\* Both goroutines missed, fetched and stored the same key, and the slot is
\* left with the data of the fetch that was invoked first.
C8_Witness ==
  \E k \in Keys :
    /\ \A g \in Procs : g \in AccessorsDone /\ fr[g].key = k /\ fr[g].fetched
    /\ fetchCount[k] = 2
    /\ setCount[k] = 2
    /\ Lookup(k).present
    /\ Lookup(k).data = Items(k, 1)

LookupsDone == {g \in Procs : pc[g] = "done" /\ fr[g].op = "GetSecurity"}

\* The collection s lists the symbol x.
Lists(s, x) == \E i \in 1..Len(s) : s[i].Symbol = x

\* The position of the first record of s whose symbol is x.
FirstOf(s, x) ==
  CHOOSE i \in 1..Len(s) :
    s[i].Symbol = x /\ \A j \in 1..(i - 1) : s[j].Symbol # x

\* C10: GetSecurity searches the collections it obtained, which are the
\* stored bluechips, cedears and galpones; it returns the first record with
\* the symbol of the first of the three that lists it, and the not-found
\* error exactly when none lists it.
C10_UniversalFindPriority ==
  \A g \in LookupsDone :
    LET b == Lookup("bluechips").data
        c == Lookup("cedears").data
        p == Lookup("galpones").data
        x == fr[g].sym
    IN /\ fr[g].colls = <<b, c, p>>
       /\ IF Lists(b, x)
          THEN fr[g].err = "nil"
               /\ fr[g].ptr = [coll |-> "bluechips", idx |-> FirstOf(b, x)]
          ELSE IF Lists(c, x)
          THEN fr[g].err = "nil"
               /\ fr[g].ptr = [coll |-> "cedears", idx |-> FirstOf(c, x)]
          ELSE IF Lists(p, x)
          THEN fr[g].err = "nil"
               /\ fr[g].ptr = [coll |-> "galpones", idx |-> FirstOf(p, x)]
          ELSE fr[g].err = "security not found" /\ fr[g].ptr = NilPtr

\* The symbol is the second record of the bluechips and is also listed by
\* the cedears and the galpones; the bluechips record was returned.
C10_Witness ==
  \E g \in LookupsDone :
    /\ Lists(Lookup("cedears").data, fr[g].sym)
    /\ Lists(Lookup("galpones").data, fr[g].sym)
    /\ fr[g].ptr = [coll |-> "bluechips", idx |-> 2]

\* The bond lookups that have returned.
BondsDone == {g \in Procs : pc[g] = "done" /\ fr[g].op = "GetBond"}

\* C11: GetBond searches the stored bonds, short-term bonds and corporate
\* bonds; it returns the first record with the symbol of the first of the
\* three that lists it, and the not-found error exactly when none lists it.
C11_BondFindPriority ==
  \A g \in BondsDone :
    LET b == Lookup("bonds").data
        c == Lookup("shortBonds").data
        p == Lookup("corporateBonds").data
        x == fr[g].sym
    IN /\ fr[g].colls = <<b, c, p>>
       /\ IF Lists(b, x)
          THEN fr[g].err = "nil"
               /\ fr[g].ptr = [coll |-> "bonds", idx |-> FirstOf(b, x)]
          ELSE IF Lists(c, x)
          THEN fr[g].err = "nil"
               /\ fr[g].ptr = [coll |-> "shortBonds", idx |-> FirstOf(c, x)]
          ELSE IF Lists(p, x)
          THEN fr[g].err = "nil"
               /\ fr[g].ptr = [coll |-> "corporateBonds",
                               idx |-> FirstOf(p, x)]
          ELSE fr[g].err = "bond not found" /\ fr[g].ptr = NilPtr

\* The symbol is the second record of the bonds and is also listed first by
\* the short-term and the corporate bonds; the bonds record was returned.
C11_Witness ==
  \E g \in BondsDone :
    /\ Lists(Lookup("shortBonds").data, fr[g].sym)
    /\ Lists(Lookup("corporateBonds").data, fr[g].sym)
    /\ fr[g].ptr = [coll |-> "bonds", idx |-> 2]

\* The batch lookups that have returned.
BatchesDone ==
  {g \in Procs : pc[g] = "done" /\ fr[g].op = "GetMultipleSecurities"}

\* The symbols of a request.
Requested(symbols) == {symbols[i] : i \in 1..Len(symbols)}

\* The record a pointer of a batch result points to.
Deref(g, ptr) ==
  fr[g].colls[CHOOSE i \in 1..3 : SecurityCats[i] = ptr.coll][ptr.idx]

\* C12: when the three collections are obtained, GetMultipleSecurities
\* returns no error and a non-nil mapping whose keys are exactly the
\* requested symbols listed by some collection, each mapped to a record of
\* that symbol and none to nil; an empty request yields an empty mapping.
C12_BatchOmission ==
  \A g \in BatchesDone :
    LET b == Lookup("bluechips").data
        c == Lookup("cedears").data
        p == Lookup("galpones").data
    IN /\ fr[g].colls = <<b, c, p>>
       /\ fr[g].err = "nil"
       /\ ~fr[g].results.isNil
       /\ DOMAIN fr[g].results.m =
            {x \in Requested(fr[g].symbols) :
               Lists(b, x) \/ Lists(c, x) \/ Lists(p, x)}
       /\ \A x \in DOMAIN fr[g].results.m :
            /\ fr[g].results.m[x] # NilPtr
            /\ Deref(g, fr[g].results.m[x]).Symbol = x
       /\ fr[g].symbols = <<>> => DOMAIN fr[g].results.m = {}

\* Two symbols were requested, one listed by a collection and one listed
\* nowhere, and the mapping holds the first only.
C12_Witness ==
  \E g \in BatchesDone :
    /\ Cardinality(Requested(fr[g].symbols)) = 2
    /\ "ZZZ" \in Requested(fr[g].symbols)
    /\ Cardinality(DOMAIN fr[g].results.m) = 1

\* C13: for every requested symbol the batch maps it to the record that
\* GetSecurity returns over the same collections, and omits it exactly when
\* GetSecurity fails with not-found.
C13_BatchEqualsLoopedFind ==
  \A g \in BatchesDone :
    \A x \in Requested(fr[g].symbols) :
      LET r == FindSecurityBySymbol(x, fr[g].colls[1], fr[g].colls[2],
                                    fr[g].colls[3])
      IN IF r.err = "nil"
         THEN /\ x \in DOMAIN fr[g].results.m
              /\ Deref(g, fr[g].results.m[x]) = Deref(g, r.ptr)
         ELSE x \notin DOMAIN fr[g].results.m

\* The searches that have returned.
SearchesDone ==
  {g \in Procs : pc[g] = "done" /\ fr[g].op = "SearchSecurities"}

\* The upper-case letter of a lower-case ASCII letter, any other byte
\* itself.
Upper(x) == IF x >= 97 /\ x <= 122 THEN x - 32 ELSE x

\* t occurs in s as a contiguous run of bytes, letters compared without
\* regard to case.
OccursIn(t, s) ==
  \E i \in 0..(Len(s) - Len(t)) :
    \A j \in 1..Len(t) : Upper(s[i + j]) = Upper(t[j])

\* The records of a collection whose symbol the text occurs in, in the
\* order of the collection.
Hits(t, securities) ==
  LET Test(r) == OccursIn(t, Bytes(r.Symbol))
  IN SelectSeq(securities, Test)

\* C15: SearchSecurities returns, without error, exactly the records whose
\* symbol contains the text as a contiguous substring compared without
\* regard to case: the bluechips matches in collection order, then the
\* cedears matches, then the galpones matches, a symbol listed by two
\* collections appearing twice.
C15_SearchIsCaseInsensitiveSubstring ==
  \A g \in SearchesDone :
    LET b == Lookup("bluechips").data
        c == Lookup("cedears").data
        p == Lookup("galpones").data
    IN /\ fr[g].colls = <<b, c, p>>
       /\ fr[g].err = "nil"
       /\ fr[g].data =
            Hits(fr[g].text, b) \o Hits(fr[g].text, c) \o Hits(fr[g].text, p)

\* The text "aP" was searched and matched, in another case, the symbol
\* AAPL listed by the bluechips and by the cedears: both records were
\* returned, the bluechips record first.
C15_Witness ==
  \E g \in SearchesDone :
    /\ fr[g].text = <<97, 80>>
    /\ Len(fr[g].data) = 2
    /\ fr[g].data[1].Symbol = "AAPL"
    /\ fr[g].data[2].Symbol = "AAPL"
    /\ Lookup("bluechips").data # <<>>
    /\ Lookup("cedears").data # <<>>

\* A returned search of the given text over cedears = [AAPL, AAP] with
\* empty bluechips and galpones.
CedearsScenario(g, text) ==
  /\ g \in SearchesDone
  /\ fr[g].text = text
  /\ fr[g].colls[1] = <<>>
  /\ fr[g].colls[2] = <<[Symbol |-> "AAPL", Last |-> 1],
                        [Symbol |-> "AAP", Last |-> 2]>>
  /\ fr[g].colls[3] = <<>>

\* C16: SearchSecurities("APP") over cedears = [AAPL, AAP] returns both
\* records.
C16_AppFindsBoth ==
  \A g \in Procs :
    CedearsScenario(g, <<65, 80, 80>>) => fr[g].data = fr[g].colls[2]

\* C16 as amended: SearchSecurities("APP") over cedears = [AAPL, AAP]
\* returns no record and no error, neither symbol containing "APP"; the
\* text "AAP" over the same collections returns both records.
C16_AppFindsNeither ==
  \A g \in Procs :
    /\ CedearsScenario(g, <<65, 80, 80>>) =>
         fr[g].data = <<>> /\ fr[g].err = "nil"
    /\ CedearsScenario(g, <<65, 65, 80>>) =>
         fr[g].data = fr[g].colls[2] /\ fr[g].err = "nil"

\* The search of "APP" over cedears = [AAPL, AAP] has returned.
C16_Witness == \E g \in Procs : CedearsScenario(g, <<65, 80, 80>>)

\* C17: a search of the empty text returns, without error, every record of
\* the bluechips, then of the cedears, then of the galpones, the records
\* with an empty symbol included.
C17_EmptyTextMatchesAll ==
  \A g \in SearchesDone :
    fr[g].text = <<>> =>
      /\ fr[g].err = "nil"
      /\ fr[g].data = fr[g].colls[1] \o fr[g].colls[2] \o fr[g].colls[3]
      /\ fr[g].colls = <<Lookup("bluechips").data, Lookup("cedears").data,
                         Lookup("galpones").data>>

\* The empty text was searched in two non-empty collections, one of them
\* holding a record with an empty symbol, and both records were returned.
C17_Witness ==
  \E g \in SearchesDone :
    /\ fr[g].text = <<>>
    /\ Len(fr[g].data) = 2
    /\ fr[g].data[1].Symbol = "AAP"
    /\ fr[g].data[2].Symbol = ""
    /\ Len(Lookup("cedears").data) = 1
    /\ Len(Lookup("galpones").data) = 1

\* The composite lookups that have returned.
CompositesDone ==
  {g \in Procs :
     /\ pc[g] = "done"
     /\ fr[g].op \in {"GetSecurity", "GetBond", "GetMultipleSecurities",
                       "SearchSecurities"}}

\* The call of g returned no record, no mapping and no list.
NoResult(g) ==
  fr[g].ptr = NilPtr /\ fr[g].results.isNil /\ fr[g].data = <<>>

\* C14: a composite lookup one of whose fetches failed returns the error of
\* that fetch and no result; it returns no error or the not-found error
\* only when all three collections were obtained.
C14_AllOrNothing ==
  \A g \in CompositesDone :
    /\ fr[g].ferr # "nil" => fr[g].err = fr[g].ferr /\ NoResult(g)
    /\ fr[g].err # "nil" => NoResult(g)
    /\ fr[g].err \notin Errs => Len(fr[g].colls) = 3 /\ fr[g].ferr = "nil"
    /\ fr[g].err \in Errs \cup {"nil", "security not found", "bond not found"}

\* GetSecurity of a symbol listed by the cached bluechips returned the error
\* of the failed fetch of a later collection.
C14_Witness ==
  \E g \in CompositesDone :
    /\ fr[g].op = "GetSecurity"
    /\ fr[g].err \in Errs
    /\ fr[g].key # "bluechips"
    /\ Lookup("bluechips").present
    /\ Lists(Lookup("bluechips").data, fr[g].sym)

\* The single-collection lookups that have returned.
FindsDone == {g \in Procs : pc[g] = "done" /\ fr[g].op \in DOMAIN FindCalls}

\* The not-found error of each single-collection lookup.
NotFoundOf(method) ==
  IF method = "GetOption" THEN "option not found"
  ELSE IF method = "GetFuture" THEN "future not found"
  ELSE "security not found"

\* C18: GetBluechip, GetCedear, GetGalpone, GetOption and GetFuture read
\* their own collection only and return the first record of it whose symbol
\* equals the argument exactly, as stored, and the not-found error with no
\* record exactly when no record of it has that symbol.
C18_FindInOwnCollection ==
  \A g \in FindsDone :
    LET own == Lookup(FindCalls[fr[g].op]).data
        x == fr[g].sym
    IN /\ fr[g].colls = <<own>>
       /\ IF Lists(own, x)
          THEN /\ fr[g].err = "nil"
               /\ fr[g].ptr = [coll |-> FindCalls[fr[g].op],
                               idx |-> FirstOf(own, x)]
               /\ own[fr[g].ptr.idx].Symbol = x
          ELSE /\ fr[g].err = NotFoundOf(fr[g].op)
               /\ fr[g].ptr = NilPtr

\* GetCedear failed with not-found for a symbol that the bluechips list and
\* the cedears do not.
C18_Witness ==
  \E g \in FindsDone :
    /\ fr[g].op = "GetCedear"
    /\ fr[g].err = "security not found"
    /\ Lists(Lookup("bluechips").data, fr[g].sym)
    /\ Lookup("cedears").data # <<>>

\* C19: the mapping GetCacheInfo returned after a sequence of accessor
\* calls and clears has an entry for a bulk category exactly when the cache
\* holds a slot, fresh or stale, for it.
C19_InfoListsEverySlot ==
  \A g \in Procs :
    (pc[g] = "done" /\ fr[g].op = "GetCacheInfo") =>
      DOMAIN fr[g].info = {k \in Cats : slot[k].present}

\* C20: every entry of the mapping Cache.GetInfo builds has the length of
\* the stored sequence as count, the time since the capture as age, and
\* fresh true exactly when a get at that instant finds the slot; a slot of
\* a category GetInfo reports is listed also when stale, with fresh false;
\* GetInfo changes no slot.
C20_InfoAgreesWithGet ==
  [][\A g \in Procs :
       (pc[g] = "info_read" /\ pc'[g] = "done") =>
         /\ \A c \in DOMAIN fr'[g].info :
              /\ slot[c].present
              /\ fr'[g].info[c].count = Len(slot[c].data)
              /\ fr'[g].info[c].age = Clock - slot[c].timestamp
              /\ fr'[g].info[c].fresh = GetResult(c).found
              /\ Clock - slot[c].timestamp >= Duration =>
                   ~fr'[g].info[c].fresh
         /\ \A c \in InfoCats :
              slot[c].present => c \in DOMAIN fr'[g].info
         /\ slot' = slot
         /\ incomeStatements' = incomeStatements]_vars

\* Cache.GetInfo returned an entry for a slot exactly as old as the
\* duration, with fresh false, and the slot is still stored.
C20_Witness ==
  \E g \in Procs :
    /\ pc[g] = "done"
    /\ fr[g].op = "GetInfo"
    /\ "bluechips" \in DOMAIN fr[g].info
    /\ fr[g].info["bluechips"].age = Duration
    /\ ~fr[g].info["bluechips"].fresh
    /\ fr[g].info["bluechips"].count = 1
    /\ slot["bluechips"].present

\* The lookups that read the three security collections.
SecurityLookups == {"GetSecurity", "GetMultipleSecurities", "SearchSecurities"}

\* C21: the symbol lookup, the batch lookup and the search read the slots of
\* bluechips, cedears and galpones through the accessors; no fetcher is
\* invoked for a category whose slot is fresh, so that the last invocation
\* of a fetcher is the one whose payload the slot holds; a batch lookup on
\* a newly made client whose fetches succeed invokes each of the three
\* fetchers exactly once, whatever the number of symbols.
C21_LookupsShareSlots ==
  /\ \A g \in Procs :
       fr[g].op \in SecurityLookups =>
         /\ fr[g].key \in {"bluechips", "cedears", "galpones"}
         /\ pc[g] = "fetching" => ~fr[g].hot
         /\ (pc[g] = "done" /\ fr[g].err \notin Errs) =>
              \A i \in 1..3 : fr[g].colls[i] = Lookup(SecurityCats[i]).data
         /\ (pc[g] = "done" /\ calls = 1 /\ fr[g].err \notin Errs
               /\ fr[g].op = "GetMultipleSecurities") =>
              \A k \in Keys :
                fetchCount[k] =
                  IF k \in {"bluechips", "cedears", "galpones"} THEN 1 ELSE 0
  /\ \A k \in {"bluechips", "cedears", "galpones"} :
       (slot[k].present /\ \A g \in Procs : pc[g] \in {"idle", "done"}) =>
         slot[k].data = Items(k, fetchCount[k])

\* The second call, a batch lookup of two symbols, returned its mapping and
\* each of the three fetchers has been invoked once, by the first call.
C21_Witness ==
  \E g \in Procs :
    /\ pc[g] = "done"
    /\ calls = 2
    /\ fr[g].op = "GetMultipleSecurities"
    /\ Len(fr[g].symbols) = 2
    /\ ~fr[g].results.isNil
    /\ \A k \in {"bluechips", "cedears", "galpones"} : fetchCount[k] = 1

\* C22: income statements are cached per ticker.  GetIncomeStatement(t)
\* made while the slot of t is fresh returns the stored statements without
\* invoking the fetcher; the slot of t is created or changed only by the
\* store of a fetch of that same ticker, which makes it the fetched data
\* at the time of the store; no call for a ticker changes the slot of a
\* bulk category.
C22_StatementsPerTicker ==
  [][/\ \A t \in Tickers :
          Lookup(t)' # Lookup(t) =>
            \E g \in Procs :
              /\ pc[g] = "set_write"
              /\ fr[g].key = t
              /\ Lookup(t)' = NewSlot(Items(t, fr[g].fid), Clock)
     /\ \A k \in Cats :
          slot'[k] # slot[k] =>
            \E g \in Procs : pc[g] = "set_write" /\ fr[g].key = k
     /\ \A g \in Procs :
          fr[g].key \in Tickers =>
            /\ (pc[g] = "fetch" /\ pc'[g] = "fetching") =>
                 ~GetResult(fr[g].key).found
            /\ (pc[g] = "get_read" /\ pc'[g] # "get_read"
                  /\ GetResult(fr[g].key).found) =>
                 /\ pc'[g] = "done"
                 /\ fr'[g].err = "nil"
                 /\ fr'[g].data = Lookup(fr[g].key).data
                 /\ fetchCount' = fetchCount]_vars

\* The statements of one ticker were answered from its slot, stored by an
\* earlier call, after the statements of the other ticker had been fetched
\* and stored, each fetcher having been invoked once.
C22_Witness ==
  \E g \in AccessorsDone :
    /\ fr[g].key = "GGAL"
    /\ fr[g].found
    /\ ~fr[g].fetched
    /\ fr[g].data = Items("GGAL", 1)
    /\ Lookup("YPFD").present
    /\ Lookup("YPFD").data = Items("YPFD", 1)
    /\ Lookup("GGAL").timestamp # Lookup("YPFD").timestamp
    /\ fetchCount["GGAL"] = 1
    /\ fetchCount["YPFD"] = 1
    /\ ~Lookup("bluechips").present

\* C23: a set of a key always returns and makes the slot of the key
\* exactly the given data, captured at the time of the set: nothing of the
\* data stored before is kept, an empty sequence is stored like any other
\* and is found by a get at that instant; the slot of every other category
\* and ticker is left as it was.
C23_SetReplacesOneSlot ==
  [][\A g \in Procs :
       (pc[g] = "set_write" /\ pc'[g] # "set_write") =>
         /\ pc'[g] = "done"
         /\ writer' = 0
         /\ Lookup(fr[g].key)' = NewSlot(fr[g].data, Clock)
         /\ GetResult(fr[g].key)' = [data |-> fr[g].data, found |-> TRUE]
         /\ \A k \in Keys \ {fr[g].key} : Lookup(k)' = Lookup(k)]_vars

\* An empty sequence was set over the slot in which the other goroutine had
\* stored a record, after the clock had advanced: the slot is now the empty
\* sequence captured at the later time, and a get finds it.
C23_Witness ==
  \E g, h \in Procs :
    /\ pc[g] = "done"
    /\ fr[g].op = "Set"
    /\ fr[g].key = "bluechips"
    /\ fr[g].data = <<>>
    /\ pc[h] = "done"
    /\ fr[h].op = "Set"
    /\ fr[h].key = "bluechips"
    /\ fr[h].data # <<>>
    /\ setCount["bluechips"] = 2
    /\ Lookup("bluechips") = NewSlot(<<>>, Duration - 1)
    /\ GetResult("bluechips").found

\* The table of a newly constructed cache.
EmptyTable ==
  /\ slot = [c \in Cats |-> NilSlot]
  /\ incomeStatements = [t \in {} |-> NilSlot]

\* C24: a clear returns with the table of a newly constructed cache, the
\* map of income statements included, whatever the table was before: empty,
\* just cleared or filled; the sets and gets that follow act on that table,
\* which holds exactly what was set since the clear.
C24_ClearIsIdempotent ==
  [][/\ \A g \in Procs :
          (pc[g] = "clear_write" /\ pc'[g] = "done") =>
            /\ EmptyTable'
            /\ writer' = 0
            /\ \A k \in Keys : ~GetResult(k)'.found
     /\ (~Clearing => \A k \in Keys : Lookup(k) = abs[k])']_vars

\* Two clears of a cache that was never set have both returned.
C24_Witness ==
  /\ \A g \in Procs : pc[g] = "done" /\ fr[g].op = "Clear"
  /\ calls = 2
  /\ \A k \in Keys : setCount[k] = 0
  /\ EmptyTable

\* C25: an accessor called with a ctx that is already done, which finds the
\* slot of its category fresh, returns the stored sequence and no error
\* without invoking the fetcher.
C25_HitIgnoresContext ==
  \A g \in AccessorsDone :
    (fr[g].cancelledAt = "get_rlock" /\ fr[g].found) =>
      /\ fr[g].err = "nil"
      /\ fr[g].data = fr[g].seen.data
      /\ ~fr[g].fetched
      /\ fr[g].fid = 0

\* An accessor whose ctx was done at its entry returned the sequence that
\* an earlier call had fetched, the fetcher having been invoked once.
C25_Witness ==
  \E g \in AccessorsDone :
    /\ fr[g].cancelledAt = "get_rlock"
    /\ fr[g].found
    /\ fr[g].err = "nil"
    /\ fr[g].data = Items(fr[g].key, 1)
    /\ fetchCount[fr[g].key] = 1

\* C26: an accessor that misses the cache with a ctx that is done at its
\* entry, or becomes done before the request returns, returns an error and
\* stores nothing.
C26_MissHonoursContext ==
  \A g \in AccessorsDone :
    (fr[g].fetched
       /\ fr[g].cancelledAt \in {"get_rlock", "get_read", "fetch",
                                 "fetching"}) =>
      /\ fr[g].err # "nil"
      /\ fr[g].data = <<>>
      /\ Lookup(fr[g].key) = fr[g].seen

\* The code the specification gives for each status code.
CodeOf(statusCode) ==
  IF statusCode = 401 THEN "UNAUTHORIZED"
  ELSE IF statusCode = 429 THEN "RATE_LIMITED"
  ELSE IF statusCode \in {500, 502, 503} THEN "API_UNAVAILABLE"
  ELSE IF statusCode = 408 THEN "TIMEOUT"
  ELSE "HTTP_ERROR"

\* C29: MapHTTPError returns, for every integer, a *BYMAError whose Code is
\* UNAUTHORIZED for 401, RATE_LIMITED for 429, API_UNAVAILABLE for 500, 502
\* and 503, TIMEOUT for 408 and HTTP_ERROR for anything else, and whose
\* StatusCode is the argument; the package-level errors stay as they were
\* initialised.
C29_MapHTTPErrorTotal ==
  /\ \A g \in Procs :
       (pc[g] = "done" /\ fr[g].op = "MapHTTPError") =>
         /\ fr[g].ret.dyn = "*BYMAError"
         /\ fr[g].ret.Code = CodeOf(fr[g].statusCode)
         /\ fr[g].ret.StatusCode = fr[g].statusCode
  /\ sentinels = Sentinels
  /\ \A n \in DOMAIN sentinels : sentinels[n].StatusCode = 0

\* The third call mapped 502 to API_UNAVAILABLE with the message of the
\* package-level error and the status code 502.
C29_Witness ==
  \E g \in Procs :
    /\ pc[g] = "done"
    /\ fr[g].op = "MapHTTPError"
    /\ calls = 3
    /\ fr[g].statusCode = 502
    /\ fr[g].ret =
         BYMAError("API_UNAVAILABLE", <<"BYMA API is unavailable">>, 502,
                   NilError)

\* C30: IsRetryable is true exactly for a *BYMAError whose Code is TIMEOUT,
\* API_UNAVAILABLE or RATE_LIMITED, whatever its status code and underlying
\* error, or whose Code is HTTP_ERROR with a StatusCode of 500 or more; it
\* is false for every other code, for nil and for an error of any other
\* type.
C30_IsRetryableByCode ==
  \A g \in Procs :
    (pc[g] = "done" /\ fr[g].op = "IsRetryable") =>
      LET err == fr[g].arg
      IN fr[g].retryable =
           /\ err.dyn = "*BYMAError"
           /\ \/ err.Code \in {"TIMEOUT", "API_UNAVAILABLE", "RATE_LIMITED"}
              \/ err.Code = "HTTP_ERROR" /\ err.StatusCode >= 500

\* IsRetryable answered false for a retryable *BYMAError that fmt.Errorf
\* had wrapped.
C30_Witness ==
  \E g \in Procs :
    /\ pc[g] = "done"
    /\ fr[g].op = "IsRetryable"
    /\ fr[g].arg.dyn = "*fmt.wrapError"
    /\ fr[g].arg.err.dyn = "*BYMAError"
    /\ fr[g].arg.err.Code = "TIMEOUT"
    /\ ~fr[g].retryable

\* The status code of the last answer of the server to the request of g.
LastStatus(g) == fr[g].responses[Len(fr[g].responses)].StatusCode

\* C27: an accessor whose request was answered with an HTTP error status
\* returns a *BYMAError whose Code is the one MapHTTPError gives for that
\* status (429: RATE_LIMITED, for which IsRetryable is true).
C27_HTTPErrorsAreMapped ==
  \A g \in AccessorsDone :
    (fr[g].responses # <<>>
       /\ fr[g].responses[Len(fr[g].responses)].err = NilError) =>
      /\ fr[g].errv.dyn = "*BYMAError"
      /\ fr[g].errv.Code = MapHTTPError(LastStatus(g)).Code
      /\ fr[g].errv.StatusCode = LastStatus(g)
      /\ LastStatus(g) = 429 => IsRetryable(fr[g].errv)

\* C28: GetSecurity of a symbol that no collection lists returns a
\* *BYMAError whose Code is INVALID_TICKER.
C28_UnknownSymbolIsInvalidTicker ==
  \A g \in LookupsDone :
    (/\ ~Lists(Lookup("bluechips").data, fr[g].sym)
     /\ ~Lists(Lookup("cedears").data, fr[g].sym)
     /\ ~Lists(Lookup("galpones").data, fr[g].sym)) =>
      /\ fr[g].errv.dyn = "*BYMAError"
      /\ fr[g].errv.Code = "INVALID_TICKER"

\* The api.Client.GetNews calls that have returned.
NewsDone == {g \in Procs : pc[g] = "done" /\ fr[g].op = "api.GetNews"}

\* C31: GetNews returns one News per item of the payload, in the order of
\* the payload, whose Titulo is the "titulo" of the item, whose Descripcion
\* is its "descripcion", whose Descarga contains its "descarga" and whose
\* Fecha is its "fecha" parsed, not zero when the text is a date.
C31_NewsFieldByField ==
  \A g \in NewsDone :
    /\ Len(fr[g].data) = Len(fr[g].arg)
    /\ \A i \in 1..Len(fr[g].arg) :
         LET raw == fr[g].arg[i]
             item == fr[g].data[i]
         IN /\ item.Titulo = GetString(raw, "titulo")
            /\ item.Descripcion = GetString(raw, "descripcion")
            /\ item.Descarga[Len(item.Descarga)] = GetString(raw, "descarga")
            /\ item.Fecha = GetTime(raw, "fecha")
            /\ ("fecha" \in DOMAIN raw /\ LayoutOf(raw["fecha"].v) # "none")
                 => item.Fecha # 0

\* The Client.doRequest calls that have returned.
RequestsDone == {g \in Procs : pc[g] = "done" /\ fr[g].op = "doRequest"}

\* C32: the waits of one request grow exponentially: each wait after the
\* first is the previous one times a constant greater than 1.
C32_ExponentialBackoff ==
  \A g \in RequestsDone :
    LET w == fr[g].ret.waits
    IN /\ \A k \in 2..Len(w) : w[k] > w[k - 1]
       /\ \A k \in 3..Len(w) : w[k] * w[k - 2] = w[k - 1] * w[k - 1]

\* C33: callers cannot change cached data: whatever the callers did with
\* the sequences and records returned to them, a hit of the cache returns
\* the sequence that the most recent set of the category stored.
C33_CallersCannotChangeCache ==
  \A k \in Cats :
    GetResult(k).found => GetResult(k).data = abs[k].data

\* The attempts of the request of g that the server answers with a status
\* code in 200..299.
Successes(g) ==
  {i \in 1..Len(fr[g].responses) :
     /\ fr[g].responses[i].err = NilError
     /\ fr[g].responses[i].StatusCode \in 200..299}

\* The first of a non-empty set of attempts.
FirstAttempt(S) == CHOOSE i \in S : \A j \in S : i <= j

C35_OnlyRetryableRetried ==
  \A g \in RequestsDone :
    \A i \in 1..(fr[g].ret.attempts - 1) :
      \/ fr[g].responses[i].err # NilError
      \/ IsRetryable(MapHTTPError(fr[g].responses[i].StatusCode))

\* The categories a composite lookup reads, in the order of its calls.
CatsOf(op) == IF op = "GetBond" THEN BondCats ELSE SecurityCats

\* The position of category k in the sequence cats.
PositionIn(cats, k) == CHOOSE p \in 1..Len(cats) : cats[p] = k

\* C36: a composite lookup fetches its categories one after the other and
\* stops at the first failure: the fetcher of a category is invoked only
\* once the categories before it are stored, and when the lookup returned
\* the error of a fetch, the fetchers of the later categories were not
\* invoked while the collections fetched before the failure are stored.
C36_StopAtFirstFailure ==
  /\ \A cats \in {SecurityCats, BondCats} :
       \A q \in 1..Len(cats) :
         fetchCount[cats[q]] > 0 =>
           \A p \in 1..(q - 1) : Lookup(cats[p]).present
  /\ \A g \in CompositesDone :
       fr[g].ferr # "nil" =>
         LET cats == CatsOf(fr[g].op)
             at == PositionIn(cats, fr[g].key)
         IN /\ fr[g].err = fr[g].ferr
            /\ Len(fr[g].colls) = at - 1
            /\ ~Lookup(cats[at]).present
            /\ \A q \in (at + 1)..Len(cats) :
                 fetchCount[cats[q]] = 0 /\ ~Lookup(cats[q]).present
            /\ \A p \in 1..(at - 1) :
                 /\ Lookup(cats[p]).present
                 /\ Lookup(cats[p]).data = Items(cats[p], fetchCount[cats[p]])
                 /\ fr[g].colls[p] = Lookup(cats[p]).data

\* GetSecurity returned the error of the fetch of the cedears: the
\* bluechips it fetched are stored and the galpones were never fetched.
C36_Witness ==
  \E g \in CompositesDone :
    /\ fr[g].op = "GetSecurity"
    /\ fr[g].ferr # "nil"
    /\ fr[g].key = "cedears"
    /\ fr[g].fetched
    /\ fetchCount["bluechips"] = 1
    /\ Lookup("bluechips").data = Items("bluechips", 1)
    /\ fetchCount["galpones"] = 0

\* The positions at which a goroutine waits for the lock of the cache.
LockWaits == {"get_rlock", "set_lock", "clear_lock", "info_rlock"}

\* C37: the lock of the cache is never held across a fetch: a goroutine
\* whose fetcher is about to run or is running holds neither the read lock
\* nor the write lock, so that a goroutine waiting for the lock meanwhile
\* is held up by the other goroutines at most, never by the fetch.
C37_NoLockAcrossFetch ==
  \A g \in Procs :
    pc[g] \in {"fetch", "fetching"} =>
      /\ g \notin readers
      /\ writer # g
      /\ \A h \in Procs \ {g} :
           pc[h] \in LockWaits =>
             /\ readers \subseteq Procs \ {g, h}
             /\ writer \in {0} \cup (Procs \ {g, h})

\* while the first fetch of the bluechips by g is pending, h missed, made
\* the second fetch, stored its payload and returned
C37_Witness ==
  \E g \in Procs, h \in Procs :
    /\ pc[g] = "fetching"
    /\ fr[g].key = "bluechips"
    /\ fr[g].fid = 1
    /\ pc[h] = "done"
    /\ fr[h].op = "GetCollection"
    /\ fr[h].key = "bluechips"
    /\ fr[h].fid = 2
    /\ Lookup("bluechips").data = Items("bluechips", 2)

\* C38: a slot is replaced as a whole: outside a clear, the data and the
\* capture time a slot holds are the argument and the time of one set, the
\* most recent one of its category, and a hit returns the data of the very
\* pair whose capture time it judged fresh.
C38_SlotsReplacedWhole ==
  /\ \A k \in Keys :
       Lookup(k).present /\ ~Clearing =>
         /\ Lookup(k).data = abs[k].data
         /\ Lookup(k).timestamp = abs[k].timestamp
  /\ \A g \in GetsDone :
       fr[g].found =>
         /\ fr[g].seen.present
         /\ fr[g].seen = fr[g].want
         /\ fr[g].data = fr[g].seen.data
         /\ fr[g].at - fr[g].seen.timestamp < Duration

\* a category was set twice and a get at time Duration hit the pair that
\* the second set stored at time Duration - 1
C38_Witness ==
  \E g \in GetsDone :
    /\ fr[g].found
    /\ setCount[fr[g].key] = 2
    /\ fr[g].data # <<>>
    /\ fr[g].seen.timestamp = Duration - 1
    /\ fr[g].at = Duration

\* C39: every operation releases the lock of the cache on every return
\* path, and every call eventually returns: a goroutine that is in no call
\* holds neither lock, and a goroutine inside a call gets to its end.
C39_EveryCallReturns ==
  /\ [](\A g \in Procs :
          pc[g] \in {"idle", "done"} => g \notin readers /\ writer # g)
  /\ \A g \in Procs : (pc[g] \notin {"idle", "done"}) ~> (pc[g] = "done")

\* a clear returned, the accessor that stored its fetch after the clear
\* returned too, and the lock is free
C39_Witness ==
  \E g \in Procs, h \in Procs :
    /\ pc[g] = "done" /\ fr[g].op = "ClearCache"
    /\ pc[h] = "done" /\ fr[h].op = "GetCollection" /\ fr[h].fetched
    /\ fr[h].err = "nil"
    /\ Lookup(fr[h].key).present
    /\ readers = {} /\ writer = 0

====
